---------------------------- MODULE Spec2Model ----------------------------
(***************************************************************************)
(* A model of the JusWay Documents API prototypes:                         *)
(*   src/server.js                    authenticate, token issue, templates *)
(*   src/middleware/security.js       SecurityMiddleware                   *)
(*   src/r2-storage.js                R2Storage                            *)
(*   src/services/DocumentGenerator.js  processData and its formatters     *)
(*                                                                         *)
(* Strings.  A JavaScript string is modelled as the sequence of its        *)
(* pieces: every separator character ("/", "-", ":", ".", "_", " ") is a   *)
(* piece of its own and every maximal run of other characters is one       *)
(* piece.  Concatenation is \o.  Where single characters matter (the CPF   *)
(* formatter) every piece is one character, and a number spliced into a    *)
(* key or a timestamp is one piece per digit, so that parseInt can read it *)
(* back.                                                                   *)
(*                                                                         *)
(* Each subsystem has its own variables and its own specification; a       *)
(* specification leaves the other subsystems' variables at their initial   *)
(* values.                                                                 *)
(***************************************************************************)
EXTENDS Integers, Sequences, FiniteSets, TLC

VARIABLES
  dcall,   \* DocumentGenerator: the call under way, [fn, arg]
  dret,    \* DocumentGenerator: what the call returned or threw (NoRet before)
  cenvs,   \* encryption: the envelopes encryptDocument has returned so far
  ccall,   \* encryption: the arguments of the last decryptDocument call
  cret,    \* encryption: what that call returned or threw
  now,            \* server.js: Date.now(), in milliseconds
  nextSweep,      \* server.js: when the rate-limit setInterval fires next
  requestCounts,  \* server.js: requestCounts, key -> count
  tokens,         \* server.js: the JWTs generate-token has issued
  aresp,          \* server.js: the request authenticate handled last at this instant, and its outcome
  inWindow,       \* history: per tenant, the requests rate-judged in the current window
  nReq,           \* server.js: requests handled so far in this run
  nTick,          \* server.js: clock steps taken so far in this run
  mnow,           \* security.js: Date.now(), in milliseconds
  mkeys,          \* security.js: the API keys gerar-api-key.js has printed
  mreq,           \* security.js: the request in the middleware chain
  mres,           \* security.js: what the chain did with it so far
  templateStore,    \* server.js: templateStore's own properties, tenant -> id -> template
  objectPrototype,  \* server.js: the properties the handlers have put on Object.prototype
  r2Configured,     \* r2-storage.js: isConfigured
  r2Objects,        \* r2-storage.js: the bucket, key -> object
  pending,          \* server.js: the lookups waiting for r2Storage.getTemplate
  tres,             \* server.js: the response of the template route that answered last
  nUploads,         \* server.js: uploads handled so far in this run
  watched,          \* history: the <<tenant, id>> whose deletes are followed, <<>> for none
  deleted,          \* history: a delete of the watched id succeeded, no upload of the id since
  latePending,      \* history: the waiting lookups of the watched id that arrived after such a delete
  late,             \* history: whether the lookup answered in tres arrived after such a delete
  nodeEnv,   \* server.js: process.env.NODE_ENV
  pdfConverter,   \* server.js: pdfConverter, with the isConfigured of the module loaded
  greq,   \* server.js: the generate request handled last, and what its calls met
  gres,   \* server.js: the response to that request
  nGen,  \* server.js: generate and upload requests handled so far in this run
  sreq,   \* security.js: the request passing sanitizeData and auditLog: body, sanitizedBody, and the body as sent
  logged,  \* security.js: the audit entry printed and appended last
  lnow,   \* security.js rateLimiter: Date.now(), in milliseconds
  rateLimits,   \* security.js: global.rateLimits, tenant -> [count, resetTime]
  lres,   \* security.js: what rateLimiter did with the request it handled last
  nLimited,   \* security.js: requests rateLimiter handled so far in this run
  nLimiterTicks,  \* security.js: clock steps taken so far in this run
  reached,        \* history: per tenant, the requests that got to rateLimiter in the tenant's current window
  creq,   \* the middleware chain: the request object passing it, with what the stages put on it
  cdone,   \* the middleware chain: what each stage run on the request did, in order
  twinCast,   \* two runs side by side: the tenants A and B, and which of them sends many requests
  twinNow,   \* two runs side by side: the clock and the next rate-limit sweep, the same in both
  twinRuns,   \* two runs side by side: requestCounts, rateLimits and the number of A's requests of each run
  twinSeen,  \* two runs side by side: B's requests so far, and what the rate check answered the last one in each run
  cacheClock,   \* server.js template cache: Date.now(), when the cache sweep fires next, and the clock steps so far
  touched   \* history: per stored <<tenant, id>>, when the template was last uploaded, fetched or used

dataVars == <<dcall, dret>>
cryptoVars == <<cenvs, ccall, cret>>
authVars == <<now, nextSweep, requestCounts, tokens, aresp, inWindow, nReq, nTick>>

mwVars == <<mnow, mkeys, mreq, mres>>

tplVars ==
  <<templateStore, objectPrototype, r2Configured, r2Objects, pending, tres, nUploads,
    watched, deleted, latePending, late>>

genVars == <<nodeEnv, pdfConverter, greq, gres, nGen>>

logVars == <<sreq, logged>>

limiterVars == <<lnow, rateLimits, lres, nLimited, nLimiterTicks, reached>>

chainVars == <<creq, cdone>>

twinVars == <<twinCast, twinNow, twinRuns, twinSeen>>

cacheVars == <<cacheClock, touched>>

vars == <<dataVars, cryptoVars, authVars, mwVars, tplVars, genVars, logVars, limiterVars, chainVars, twinVars, cacheVars>>

\* What the actions of one part of the program leave alone.
outsideData == <<cryptoVars, authVars, mwVars, tplVars, genVars, logVars, limiterVars, chainVars, twinVars, cacheVars>>
outsideCrypto == <<dataVars, authVars, mwVars, tplVars, genVars, logVars, limiterVars, chainVars, twinVars, cacheVars>>
outsideAuth == <<dataVars, cryptoVars, mwVars, tplVars, genVars, logVars, limiterVars, chainVars, twinVars, cacheVars>>
outsideMw == <<dataVars, cryptoVars, authVars, tplVars, genVars, logVars, limiterVars, chainVars, twinVars, cacheVars>>
outsideTpl == <<dataVars, cryptoVars, authVars, mwVars, genVars, logVars, limiterVars, chainVars, twinVars, cacheVars>>
outsideGen == <<dataVars, cryptoVars, authVars, mwVars, tplVars, logVars, limiterVars, chainVars, twinVars, cacheVars>>
outsideLog == <<dataVars, cryptoVars, authVars, mwVars, tplVars, genVars, limiterVars, chainVars, twinVars, cacheVars>>
outsideLimiter == <<dataVars, cryptoVars, authVars, mwVars, tplVars, genVars, logVars, chainVars, twinVars, cacheVars>>
outsideChain == <<dataVars, cryptoVars, authVars, mwVars, tplVars, genVars, logVars, limiterVars, twinVars, cacheVars>>
outsideTwin == <<dataVars, cryptoVars, authVars, mwVars, tplVars, genVars, logVars, limiterVars, chainVars, cacheVars>>
outsideCache == <<dataVars, cryptoVars, authVars, mwVars, tplVars, genVars, logVars, limiterVars, chainVars, twinVars>>

(***************************************************************************)
(* Bounds of the model.                                                    *)
(***************************************************************************)
MaxCpfLen == 11      \* longest string handed to formatCPF (plus the spec's example)
MaxEntries == 2      \* most keys in an input mapping of processData
MaxEnvelopes == 2    \* most documents encrypted in one run
MaxReq == 32         \* most requests authenticate handles in one run of the rate-limit specification
MaxTokenReq == 3     \* most requests authenticate handles in one run of the token specification
MaxLight == 1        \* all rate windows but one hold at most this many requests
MaxTick == 2         \* most clock steps in one run
MaxTokens == 1       \* most tokens issued in one run
MaxKeys == 1         \* most API keys printed in one run
MaxUploads == 2      \* most templates uploaded in one run
MaxPending == 1      \* most lookups waiting for R2 at once
MwSlackMs == 2       \* how far past one key lifetime the middleware clock runs
MaxLimiterReq == 32   \* most requests rateLimiter handles in one run
MaxLimiterTicks == 3  \* most clock steps in one run of the rateLimiter specification
MaxDriftMs == 1       \* how far the clock may move between two Date.now() calls of one handler
MaxGen == 1          \* most generate requests in one run (the handlers keep nothing between requests)

(***************************************************************************)
(* JavaScript values.                                                      *)
(***************************************************************************)
Undefined == [t |-> "undefined"]
Null == [t |-> "null"]
Str(s) == [t |-> "string", s |-> s]
Num(n) == [t |-> "number", n |-> n]
Bool(b) == [t |-> "boolean", b |-> b]
Obj(tag) == [t |-> "object", tag |-> tag]
Arr(items) == [t |-> "array", items |-> items]

\* typeof v === 'string'
IsString(v) == v.t = "string"

\* typeof v === 'number'
IsNumber(v) == v.t = "number"

\* Array.isArray(v)
IsArray(v) == v.t = "array"

\* !!v : the empty string, 0, null, undefined and false are falsy
Truthy(v) ==
  CASE v.t = "string" -> v.s # <<>>
    [] v.t = "number" -> v.n # 0
    [] v.t = "boolean" -> v.b
    [] v.t = "null" -> FALSE
    [] v.t = "undefined" -> FALSE
    [] OTHER -> TRUE

\* What a call did: returned a value, or threw.
Ret(v) == [threw |-> FALSE, v |-> v]
Threw(e) == [threw |-> TRUE, e |-> e]
NoRet == [threw |-> FALSE, v |-> [t |-> "pending"]]
NoCall == [fn |-> "none"]

(***************************************************************************)
(* String helpers.                                                         *)
(***************************************************************************)
Digits == {"0", "1", "2", "3", "4", "5", "6", "7", "8", "9"}

RECURSIVE StripNonDigits(_)
\* s.replace(/\D/g, '') on a string of single characters
StripNonDigits(s) ==
  IF s = <<>> THEN <<>>
  ELSE IF Head(s) \in Digits THEN <<Head(s)>> \o StripNonDigits(Tail(s))
  ELSE StripNonDigits(Tail(s))

\* s.includes(w) for a key made of words and "_" separators
Includes(s, w) == \E i \in 1..Len(s) : s[i] = w

SeqsUpTo(S, n) == UNION {[1..k -> S] : k \in 0..n}

DigitChar == <<"0", "1", "2", "3", "4", "5", "6", "7", "8", "9">>
DigitVal(c) == CHOOSE v \in 0..9 : DigitChar[v + 1] = c

RECURSIVE ToDigits(_)
\* String(n) for n >= 0, one piece per digit
ToDigits(n) ==
  IF n < 10 THEN <<DigitChar[n + 1]>>
  ELSE ToDigits(n \div 10) \o <<DigitChar[(n % 10) + 1]>>

NaN == [nan |-> TRUE]
Number(n) == [nan |-> FALSE, n |-> n]

RECURSIVE LeadingInt(_, _)
LeadingInt(s, acc) ==
  IF s # <<>> /\ Head(s) \in Digits
  THEN LeadingInt(Tail(s), acc * 10 + DigitVal(Head(s)))
  ELSE acc

\* parseInt(s): the number its leading digits spell, NaN when it starts
\* with no digit (or is undefined)
parseInt(s) ==
  IF s # <<>> /\ Head(s) \in Digits THEN Number(LeadingInt(s, 0)) ELSE NaN

RECURSIVE Split(_, _)
\* s.split(sep): the runs between the separators, at least one
Split(s, sep) ==
  IF \A i \in 1..Len(s) : s[i] # sep THEN <<s>>
  ELSE LET i == CHOOSE i \in 1..Len(s) : s[i] = sep /\ \A j \in 1..(i - 1) : s[j] # sep
       IN <<SubSeq(s, 1, i - 1)>> \o Split(SubSeq(s, i + 1, Len(s)), sep)

(***************************************************************************)
(* DocumentGenerator.formatCPF / formatCNPJ                                *)
(***************************************************************************)
\* clean.replace(/(\d{3})(\d{3})(\d{3})(\d{2})/, '$1.$2.$3-$4') on an
\* all-digit string: the first 11 digits are regrouped, any rest is kept;
\* with fewer than 11 digits nothing matches and the string is returned as is.
CpfPattern(clean) ==
  IF Len(clean) >= 11
  THEN SubSeq(clean, 1, 3) \o <<".">> \o SubSeq(clean, 4, 6) \o <<".">>
       \o SubSeq(clean, 7, 9) \o <<"-">> \o SubSeq(clean, 10, 11)
       \o SubSeq(clean, 12, Len(clean))
  ELSE clean

\* clean.replace(/(\d{2})(\d{3})(\d{3})(\d{4})(\d{2})/, '$1.$2.$3/$4-$5')
CnpjPattern(clean) ==
  IF Len(clean) >= 14
  THEN SubSeq(clean, 1, 2) \o <<".">> \o SubSeq(clean, 3, 5) \o <<".">>
       \o SubSeq(clean, 6, 8) \o <<"/">> \o SubSeq(clean, 9, 12) \o <<"-">>
       \o SubSeq(clean, 13, 14) \o SubSeq(clean, 15, Len(clean))
  ELSE clean

\* A variant of formatCPF that forgets to strip the non-digit characters.
formatCPF_NoStrip(cpf) ==
  IF ~Truthy(cpf) THEN Ret(Str(<<>>))
  ELSE IF ~IsString(cpf) THEN Threw("TypeError")
  ELSE Ret(Str(CpfPattern(cpf.s)))

\* formatCPF(cpf): '' for a falsy argument; cpf.replace is not a function
\* (TypeError) for a truthy argument that is not a string.
formatCPF(cpf) ==
  IF ~Truthy(cpf) THEN Ret(Str(<<>>))
  ELSE IF ~IsString(cpf) THEN Threw("TypeError")
  ELSE Ret(Str(CpfPattern(StripNonDigits(cpf.s))))

formatCNPJ(cnpj) ==
  IF ~Truthy(cnpj) THEN Ret(Str(<<>>))
  ELSE IF ~IsString(cnpj) THEN Threw("TypeError")
  ELSE Ret(Str(CnpjPattern(StripNonDigits(cnpj.s))))

(***************************************************************************)
(* DocumentGenerator date and currency formatters.  A date is the local    *)
(* calendar reading [d, m, y, h, mi] of a JavaScript Date.                  *)
(***************************************************************************)
\* String(n).padStart(2, '0')
Pad2(n) == IF n < 10 THEN "0" \o ToString(n) ELSE ToString(n)

Pad3(n) == IF n < 10 THEN "00" \o ToString(n)
           ELSE IF n < 100 THEN "0" \o ToString(n) ELSE ToString(n)

\* formatDate(date): DD/MM/YYYY
formatDate(date) == <<Pad2(date.d), "/", Pad2(date.m), "/", ToString(date.y)>>

\* formatDateTime(date): DD/MM/YYYY às HH:MM
formatDateTime(date) ==
  formatDate(date) \o <<" ", "às", " ", Pad2(date.h), ":", Pad2(date.mi)>>

months ==
  <<"janeiro", "fevereiro", "março", "abril", "maio", "junho",
    "julho", "agosto", "setembro", "outubro", "novembro", "dezembro">>

\* dateToExtensive(date): D de <month> de YYYY
dateToExtensive(date) ==
  <<ToString(date.d), " ", "de", " ", months[date.m], " ", "de", " ", ToString(date.y)>>

\* Intl.NumberFormat('pt-BR', {style: 'currency', currency: 'BRL'}).format(value)
\* for a whole number 0 <= value < 1000000: R$ 5.000,00
formatCurrency(value) ==
  <<"R$", " ">>
  \o (IF value < 1000 THEN <<ToString(value)>>
      ELSE <<ToString(value \div 1000), ".", Pad3(value % 1000)>>)
  \o <<",", "00">>

InvalidDate == [invalid |-> TRUE]
DateString == <<"2024", "-", "03", "-", "05">>

\* new Date(string) for the strings of the model: one ISO date, the rest
\* unparseable (Invalid Date, for which isNaN(date) is true).
NewDate(s) ==
  IF s = DateString THEN [invalid |-> FALSE, d |-> 5, m |-> 3, y |-> 2024, h |-> 0, mi |-> 0]
  ELSE InvalidDate

(***************************************************************************)
(* Plain objects keep their keys in insertion order: a sequence of         *)
(* entries [k, v] with distinct keys.                                      *)
(***************************************************************************)
Rec(props) == [t |-> "record", props |-> props]

ObjHas(o, k) == \E i \in 1..Len(o) : o[i].k = k

ObjGet(o, k) ==
  IF ObjHas(o, k) THEN o[CHOOSE i \in 1..Len(o) : o[i].k = k].v ELSE Undefined

\* o[k] = v : an existing key keeps its place, a new key goes last
ObjSet(o, k, v) ==
  IF ObjHas(o, k)
  THEN [i \in 1..Len(o) |-> IF o[i].k = k THEN [k |-> k, v |-> v] ELSE o[i]]
  ELSE Append(o, [k |-> k, v |-> v])

ObjKeys(o) == [i \in 1..Len(o) |-> o[i].k]

\* processed[key].map(item => typeof item === 'string' ? {value: item} : item)
NormalizeArray(items) ==
  [i \in 1..Len(items) |->
     IF IsString(items[i]) THEN Rec(<<[k |-> <<"value">>, v |-> items[i]]>>)
     ELSE items[i]]

\* `${key}_formatado`
Formatado(key) == key \o <<"_", "formatado">>

(***************************************************************************)
(* DocumentGenerator.processData                                           *)
(***************************************************************************)
\* The steps of the loop body for one key, each on the object the step
\* before left.  A formatter that throws ends processData.
StepArray(processed, key) ==
  IF IsArray(ObjGet(processed, key))
  THEN ObjSet(processed, key, Arr(NormalizeArray(ObjGet(processed, key).items)))
  ELSE processed

StepCurrency(processed, key) ==
  IF (Includes(key, "valor") \/ Includes(key, "preco")) /\ IsNumber(ObjGet(processed, key))
  THEN ObjSet(processed, Formatado(key), Str(formatCurrency(ObjGet(processed, key).n)))
  ELSE processed

StepDate(processed, key, date) ==
  IF /\ Includes(key, "data")
     /\ Truthy(ObjGet(processed, key))
     /\ IsString(ObjGet(processed, key))
     /\ ~date.invalid
  THEN ObjSet(ObjSet(processed, key \o <<"_", "formatada">>, Str(formatDate(date))),
              key \o <<"_", "extenso">>, Str(dateToExtensive(date)))
  ELSE processed

RECURSIVE ProcessKeys(_, _, _)
\* for (const key in processed) { ... } over the keys the object had when
\* the loop started (V8 does not visit keys added during the enumeration)
ProcessKeys(processed, keys, i) ==
  IF i > Len(keys) THEN Ret(processed)
  ELSE
    LET key == keys[i]
        p2 == StepCurrency(StepArray(processed, key), key)
        cpf == formatCPF(ObjGet(p2, key))
        p3 == IF Includes(key, "cpf") /\ ~cpf.threw
              THEN ObjSet(p2, Formatado(key), cpf.v) ELSE p2
        cnpj == formatCNPJ(ObjGet(p3, key))
        p4 == IF Includes(key, "cnpj") /\ ~cnpj.threw
              THEN ObjSet(p3, Formatado(key), cnpj.v) ELSE p3
        val == ObjGet(p4, key)
        p5 == StepDate(p4, key, IF IsString(val) THEN NewDate(val.s) ELSE InvalidDate)
    IN IF Includes(key, "cpf") /\ cpf.threw THEN cpf
       ELSE IF Includes(key, "cnpj") /\ cnpj.threw THEN cnpj
       ELSE ProcessKeys(p5, keys, i + 1)

\* processed.tem = {}; for (const key in data) processed.tem[key] = !!data[key]
Tem(data) == Rec([i \in 1..Len(data) |-> [k |-> data[i].k, v |-> Bool(Truthy(data[i].v))]])

\* processData(data) at wall-clock date `today`
processData(data, today) ==
  LET start == ObjSet(ObjSet(data, <<"hoje">>, Str(formatDate(today))),
                      <<"agora">>, Str(formatDateTime(today)))
      looped == ProcessKeys(start, ObjKeys(start), 1)
  IN IF looped.threw THEN looped
     ELSE Ret(Rec(ObjSet(looped.v, <<"tem">>, Tem(data))))

(***************************************************************************)
(* SecurityMiddleware.encryptDocument / decryptDocument.                   *)
(*                                                                         *)
(* Node's crypto is modelled symbolically.  A scrypt key is the pair of    *)
(* its password and salt; an AES-256-GCM ciphertext is the triple of key,  *)
(* IV and plaintext; the 16-byte authentication tag is the triple of key,  *)
(* IV and ciphertext.  Distinct triples stand for byte strings that differ *)
(* (also in every prefix the tag check looks at).  A buffer holding the    *)
(* first n bytes of a tag is [of |-> tag, len |-> n].                      *)
(***************************************************************************)
\* process.env.ENCRYPTION_KEY || 'default-key'
MasterSecret == <<"default", "-", "key">>

\* crypto.scryptSync(password, salt, 32)
scryptSync(password, salt) == [pw |-> password, salt |-> salt]

\* The 16-byte authentication tag GCM computes over a ciphertext.
GcmTag(key, iv, ct) == [key |-> key, iv |-> iv, ct |-> ct]

\* Buffer.toString('hex') and Buffer.from(string, 'hex')
ToHex(buf) == [hex |-> buf]
FromHex(str) == str.hex

\* The tag lengths (bytes) decipher.setAuthTag accepts for GCM when
\* createDecipheriv was given no authTagLength option.
ValidGcmTagLengths == {4, 8, 12, 13, 14, 15, 16}

\* encryptDocument(tenantId, buffer), with `iv` the bytes randomBytes(16) drew
encryptDocument(tenantId, buffer, iv) ==
  LET key == scryptSync(MasterSecret, tenantId)
      encrypted == [key |-> key, iv |-> iv, pt |-> buffer, flipped |-> FALSE]
  IN [encrypted |-> encrypted,
      iv |-> ToHex(iv),
      authTag |-> ToHex([of |-> GcmTag(key, iv, encrypted), len |-> 16])]

\* decryptDocument(tenantId, encryptedData, iv, authTag): setAuthTag throws
\* on a tag of a length GCM does not allow; decipher.final() throws unless
\* the tag handed in equals the computed tag cut to the same length.
decryptDocument(tenantId, encryptedData, iv, authTag) ==
  LET key == scryptSync(MasterSecret, tenantId)
      nonce == FromHex(iv)
      tag == FromHex(authTag)
  IN IF tag.len \notin ValidGcmTagLengths THEN Threw("ERR_CRYPTO_INVALID_AUTH_TAG")
     ELSE IF tag.of # GcmTag(key, nonce, encryptedData)
       THEN Threw("Unsupported state or unable to authenticate data")
     ELSE Ret(encryptedData.pt)

(***************************************************************************)
(* Specification of the encryption layer: documents are encrypted, and     *)
(* decryptDocument is called on an envelope as returned or as modified by  *)
(* whoever holds the stored artifact.                                      *)
(***************************************************************************)
CryptoTenants == {<<"a">>, <<"b">>}
Plaintexts == {[t |-> "buffer", id |-> "doc1"], [t |-> "buffer", id |-> "doc2"]}
IVs == {"iv1", "iv2"}

\* What a holder can make of a ciphertext: itself, or a changed byte string.
CiphertextsFrom(e) == {e.encrypted, [e.encrypted EXCEPT !.flipped = TRUE]}

\* What a holder can make of a tag: itself, a prefix of it, or another
\* 16-byte string (the tag of the changed ciphertext).
TagsFrom(e) ==
  {ToHex([of |-> FromHex(e.authTag).of, len |-> n]) : n \in {3, 4, 8, 12, 16}}
  \cup {ToHex([of |-> GcmTag(e.encrypted.key, e.encrypted.iv,
                            [e.encrypted EXCEPT !.flipped = TRUE]), len |-> 16])}

CryptoInit ==
  /\ cenvs = {}
  /\ ccall = NoCall
  /\ cret = NoRet

CryptoIdle == CryptoInit

Encrypt(tenantId, buffer, iv) ==
  /\ Cardinality(cenvs) < MaxEnvelopes
  /\ cenvs' = cenvs \cup {[tenant |-> tenantId, pt |-> buffer,
                           env |-> encryptDocument(tenantId, buffer, iv)]}
  /\ UNCHANGED <<ccall, cret, outsideCrypto>>

Decrypt(tenantId, d, encryptedData, iv, authTag) ==
  /\ ccall' = [fn |-> "decryptDocument", tenant |-> tenantId, from |-> d,
               encrypted |-> encryptedData, iv |-> iv, authTag |-> authTag]
  /\ cret' = decryptDocument(tenantId, encryptedData, iv, authTag)
  /\ UNCHANGED <<cenvs, outsideCrypto>>

CryptoNext ==
  \/ \E t \in CryptoTenants, p \in Plaintexts, iv \in IVs : Encrypt(t, p, iv)
  \/ \E t \in CryptoTenants, d \in cenvs :
       \E ct \in CiphertextsFrom(d.env), tag \in TagsFrom(d.env) :
         Decrypt(t, d, ct, d.env.iv, tag)

\* C8.  decryptDocument on an envelope exactly as encryptDocument returned
\* it, for the same tenant, returns the plaintext; with a modified
\* ciphertext, a modified auth tag or a different tenant id it throws.
C8_EncryptionRoundTrip ==
  (ccall # NoCall) =>
    LET d == ccall.from
        same == /\ ccall.tenant = d.tenant
                /\ ccall.encrypted = d.env.encrypted
                /\ ccall.authTag = d.env.authTag
    IN /\ same => cret = Ret(d.pt)
       /\ ~same => cret.threw

(***************************************************************************)
(* server.js: authenticate, generate-token and the rate-limit sweep.       *)
(***************************************************************************)
RateCeiling == 30
WindowMs == 60000
SweepIntervalMs == 300000
SweepAgeMinutes == 5
TokenLifetimeS == 86400

MASTER_API_KEY == <<"YmFzZTQ0OnNlbmhhMTIzOjE3NTgzMDk2Mjc5MDk=">>

NoHeader == Undefined
NoAuthorization == [kind |-> "none"]
Bearer(token) == [kind |-> "Bearer", token |-> token]

\* jwt.sign(payload, JWT_SECRET, {expiresIn: '24h'}) at time t: iat is the
\* time in whole seconds, exp is iat plus the lifetime
jwtSign(tenantId, tenantName, t) ==
  [tenantId |-> tenantId, tenantName |-> tenantName, issuedAt |-> t,
   iat |-> t \div 1000, exp |-> (t \div 1000) + TokenLifetimeS, signed |-> TRUE]

\* A verification that never looks at exp.
jwtVerify_NoExpiry(token, t) ==
  IF ~token.signed THEN Threw("JsonWebTokenError") ELSE Ret(token)

\* jwt.verify(token, JWT_SECRET) at time t: a bad signature is a
\* JsonWebTokenError; a token whose exp the clock (whole seconds) has
\* reached is a TokenExpiredError; otherwise the payload
jwtVerify(token, t) ==
  IF ~token.signed THEN Threw("JsonWebTokenError")
  ELSE IF t \div 1000 >= token.exp THEN Threw("TokenExpiredError")
  ELSE Ret(token)

\* A key of the minute alone, shared by every tenant.
RateKey_Shared(tenantId, minute) == <<"all", "-">> \o ToDigits(minute)

\* `${tenantId}-${minute}`
RateKey(tenantId, minute) == tenantId \o <<"-">> \o ToDigits(minute)

\* requestCounts[key] = (requestCounts[key] || 0) + 1, and whether the
\* count now exceeds the ceiling
CountRequest(counts, tenantId, t) ==
  LET key == RateKey(tenantId, t \div WindowMs)
      n == (IF key \in DOMAIN counts THEN counts[key] ELSE 0) + 1
  IN [counts |-> [k \in DOMAIN counts \cup {key} |-> IF k = key THEN n ELSE counts[k]],
      exceeded |-> n > RateCeiling]

Rejected(status, error, counts) ==
  [status |-> status, error |-> error, next |-> FALSE, tenantId |-> Undefined,
   counts |-> counts]

Admitted(tenantId, counts) ==
  [status |-> 0, error |-> "", next |-> TRUE, tenantId |-> tenantId, counts |-> counts]

\* The rate-limit step both branches of authenticate share.
RateLimited(counts, tenantId, t) ==
  LET c == CountRequest(counts, tenantId.s, t)
  IN IF c.exceeded THEN Rejected(429, "Rate limit exceeded", c.counts)
     ELSE Admitted(tenantId, c.counts)

\* The else branch of authenticate: the x-api-key must be the master key
\* and the x-tenant-id header names the tenant.
ApiKeyMode(req, counts, t) ==
  IF ~Truthy(req.apiKey)
    THEN Rejected(401, "Authentication required (Bearer token or API key)", counts)
  ELSE IF ~Truthy(req.tenantId)
    THEN Rejected(401, "Tenant ID required when using API key", counts)
  ELSE IF req.apiKey # Str(MASTER_API_KEY)
    THEN Rejected(401, "Invalid API key", counts)
  ELSE RateLimited(counts, req.tenantId, t)

\* The then branch of authenticate: the token after 'Bearer ' decides.
BearerMode(req, counts, t) ==
  LET decoded == jwtVerify(req.authorization.token, t)
  IN IF decoded.threw
     THEN Rejected(401, IF decoded.e = "TokenExpiredError" THEN "Token expired"
                        ELSE "Invalid token", counts)
     ELSE IF ~Truthy(decoded.v.tenantId)
       THEN Rejected(401, "Invalid token: missing tenantId", counts)
     ELSE RateLimited(counts, decoded.v.tenantId, t)

\* An authenticate that goes on to the API key when the token is refused.
authenticate_Fallback(req, counts, t) ==
  IF req.authorization.kind = "Bearer" /\ BearerMode(req, counts, t).status # 401
  THEN BearerMode(req, counts, t)
  ELSE ApiKeyMode(req, counts, t)

\* authenticate(req, res, next) at time t with the counters `counts`: the
\* response sent or the call of next, and the counters it leaves
authenticate(req, counts, t) ==
  IF req.authorization.kind = "Bearer"
  THEN BearerMode(req, counts, t)
  ELSE ApiKeyMode(req, counts, t)

\* The body of the rate-limit setInterval callback at time t: every key
\* whose second '-'-separated part parses to a minute more than 5 minutes
\* back is deleted (a comparison with NaN is false).
SweepRateLimits(counts, t) ==
  LET currentMinute == t \div WindowMs
      stale(key) == LET minute == parseInt(Split(key, "-")[2])
                    IN ~minute.nan /\ currentMinute - minute.n > SweepAgeMinutes
  IN [k \in {k \in DOMAIN counts : ~stale(k)} |-> counts[k]]

RECURSIVE Firings(_, _, _)
\* The counters after n firings of the timer in a row, the first at time
\* `first` and each SweepIntervalMs after the one before.
Firings(counts, first, n) ==
  IF n = 0 THEN counts
  ELSE IF n = 1 THEN SweepRateLimits(counts, first)
  ELSE LET h == n \div 2
           left == Firings(counts, first, h)
       IN IF DOMAIN left = {} THEN left   \* nothing left for a firing to delete
          ELSE Firings(left, first + h * SweepIntervalMs, n - h)

\* The timer fires every SweepIntervalMs: the counters and the next firing
\* time once every firing due by time t has run.
SweepsUntil(counts, due, t) ==
  IF due > t THEN [counts |-> counts, due |-> due]
  ELSE LET n == ((t - due) \div SweepIntervalMs) + 1
       IN [counts |-> Firings(counts, due, n), due |-> due + n * SweepIntervalMs]

(***************************************************************************)
(* Specification of server.js authentication and rate limiting.            *)
(***************************************************************************)
StartMs == 630000

RateTenants == {<<"acme">>, <<"t", "-", "1">>}

NoRequest == [authorization |-> NoAuthorization, apiKey |-> NoHeader, tenantId |-> NoHeader]
NoResponse == [req |-> NoRequest, status |-> 0, error |-> "", next |-> FALSE,
               tenantId |-> Undefined]

AuthInit ==
  /\ now = StartMs
  /\ nextSweep = StartMs + SweepIntervalMs
  /\ requestCounts = << >>
  /\ tokens = {}
  /\ aresp = NoResponse
  /\ inWindow = << >>
  /\ nReq = 0
  /\ nTick = 0

AuthIdle == AuthInit

\* The keys that hold more than MaxLight requests.
Heavy(counts) == {k \in DOMAIN counts : counts[k] > MaxLight}

\* The tenant a request claims to be: the token's, or the x-tenant-id header.
Claimant(req) ==
  IF req.authorization.kind = "Bearer" THEN req.authorization.token.tenantId
  ELSE req.tenantId

\* What one request through authenticate does to the counters and to the
\* record of the request handled last.
AuthenticateStep(req) ==
  /\ LET r == authenticate(req, requestCounts, now)
         t == Claimant(req).s
     IN /\ Cardinality(Heavy(r.counts)) <= 1
        /\ requestCounts' = r.counts
        /\ aresp' = [req |-> req, status |-> r.status, error |-> r.error,
                     next |-> r.next, tenantId |-> r.tenantId]
        /\ inWindow' = IF r.status = 401 THEN inWindow
                       ELSE [k \in DOMAIN inWindow \cup {t} |->
                               IF k = t THEN (IF t \in DOMAIN inWindow THEN inWindow[t] ELSE 0) + 1
                               ELSE inWindow[k]]
  /\ nReq' = nReq + 1

\* One request through authenticate.
Authenticate(req) ==
  /\ AuthenticateStep(req)
  /\ UNCHANGED <<now, nextSweep, tokens, nTick, outsideAuth>>

\* POST /api/auth/generate-token with the master key and a tenantId.
GenerateToken(tenantId) ==
  /\ Cardinality(tokens) < MaxTokens
  /\ tokens' = tokens \cup {jwtSign(Str(tenantId), Str(tenantId), now)}
  /\ UNCHANGED <<now, nextSweep, requestCounts, aresp, inWindow, nReq, nTick,
                 outsideAuth>>

\* Time passes until instant t; the sweeps due by then run at their times.
TickTo(t) ==
  /\ nTick < MaxTick
  /\ t > now
  /\ LET s == SweepsUntil(requestCounts, nextSweep, t)
     IN /\ requestCounts' = s.counts
        /\ nextSweep' = s.due
  /\ now' = t
  /\ aresp' = NoResponse
  /\ inWindow' = IF t \div WindowMs = now \div WindowMs THEN inWindow ELSE << >>
  /\ nTick' = nTick + 1
  /\ UNCHANGED <<tokens, nReq, outsideAuth>>

\* The instants the rate-limit behaviour can change at: the next window
\* boundary, the next sweep, and the half minute before it.
RateInstants ==
  {((now \div WindowMs) + 1) * WindowMs, nextSweep, nextSweep - (WindowMs \div 2)}

ApiKeyRequest(tenantId) ==
  [authorization |-> NoAuthorization, apiKey |-> Str(MASTER_API_KEY), tenantId |-> Str(tenantId)]

BearerRequest(token) ==
  [authorization |-> Bearer(token), apiKey |-> NoHeader, tenantId |-> NoHeader]

RateTokenTenants == {<<"acme">>}

RateNext ==
  \/ \E t \in RateTenants : nReq < MaxReq /\ Authenticate(ApiKeyRequest(t))
  \/ \E tok \in tokens : nReq < MaxReq /\ Authenticate(BearerRequest(tok))
  \/ \E t \in RateTokenTenants : GenerateToken(t)
  \/ \E t \in RateInstants : TickTo(t)

\* C1. For every tenant, of the authenticated requests that fall inside
\* one 60-second window the first 30 are admitted and the 31st and every
\* later one gets 429; the first request after the window rolled over is
\* admitted again.
C1_RateCeiling ==
  (aresp.req # NoRequest /\ aresp.status # 401) =>
    LET n == inWindow[Claimant(aresp.req).s]
    IN /\ n <= RateCeiling => (aresp.next /\ aresp.status = 0)
       /\ n > RateCeiling => (~aresp.next /\ aresp.status = 429)

(***************************************************************************)
(* Specification of server.js tokens and credential modes.                 *)
(***************************************************************************)
HalfSecondMs == 500

TokenTenants == {<<"acme">>, <<"t", "-", "1">>}

\* A token whose signature does not verify, and one another holder of
\* JWT_SECRET signed without a tenantId.
ForgedToken ==
  [jwtSign(Str(<<"acme">>), Str(<<"acme">>), StartMs) EXCEPT !.signed = FALSE]
AnonymousToken == jwtSign(Str(<<>>), Str(<<>>), StartMs)

TokenRequests ==
  LET auths == {Bearer(tok) : tok \in tokens \cup {ForgedToken, AnonymousToken}}
      keys == {NoHeader, Str(MASTER_API_KEY), Str(<<"wrong">>)}
      ids == {NoHeader, Str(<<"acme">>), Str(<<>>)}
  IN {[authorization |-> a, apiKey |-> k, tenantId |-> h] :
        a \in auths, k \in {NoHeader, Str(MASTER_API_KEY)}, h \in {NoHeader, Str(<<"acme">>)}}
     \cup {[authorization |-> NoAuthorization, apiKey |-> k, tenantId |-> h] :
        k \in keys, h \in ids}

\* The instants a token's validity can change at: half a second on, and
\* for each token the instant its exp is reached and half a second before.
TokenInstants ==
  {now + HalfSecondMs}
    \cup {tok.exp * 1000 : tok \in tokens}
    \cup {tok.exp * 1000 - HalfSecondMs : tok \in tokens}

TokenNext ==
  \/ \E req \in TokenRequests : nReq < MaxTokenReq /\ Authenticate(req)
  \/ \E t \in TokenTenants : GenerateToken(t)
  \/ \E t \in TokenInstants : TickTo(t)

\* The last request carried a token generate-token issued.
CarriesIssuedToken ==
  /\ aresp.req.authorization.kind = "Bearer"
  /\ aresp.req.authorization.token \in tokens

\* C3. For every token issued by generate-token for tenant T: while the
\* clock, read in whole seconds, is before the token's exp (the issue time
\* in whole seconds plus 24h) a request carrying it is never rejected with
\* 401 and, when admitted, req.tenantId equals T; from that second on every
\* request carrying it is rejected with 401 and req.tenantId is never set.
C3_TokenValidity ==
  CarriesIssuedToken =>
    LET tok == aresp.req.authorization.token
    IN IF now \div 1000 < tok.exp
       THEN /\ aresp.status # 401
            /\ aresp.next => aresp.tenantId = tok.tenantId
       ELSE /\ aresp.status = 401
            /\ ~aresp.next
            /\ aresp.tenantId = Undefined

\* A token refused as expired less than 24 hours after it was issued.
C3_Witness ==
  /\ CarriesIssuedToken
  /\ now - aresp.req.authorization.token.issuedAt < TokenLifetimeS * 1000
  /\ aresp.status = 401
  /\ aresp.error = "Token expired"

\* C3 as stated: the token is unexpired for the 24 hours after its issue.
C3_Original ==
  CarriesIssuedToken =>
    LET tok == aresp.req.authorization.token
    IN IF now - tok.issuedAt < TokenLifetimeS * 1000
       THEN /\ aresp.status # 401
            /\ aresp.next => aresp.tenantId = tok.tenantId
       ELSE /\ aresp.status = 401
            /\ ~aresp.next
            /\ aresp.tenantId = Undefined

\* The last request carried a Bearer token that does not verify now.
CarriesRefusedToken ==
  /\ aresp.req.authorization.kind = "Bearer"
  /\ LET tok == aresp.req.authorization.token
     IN ~tok.signed \/ now \div 1000 >= tok.exp \/ ~Truthy(tok.tenantId)

\* The last request carried the master key and a tenant id in its headers.
CarriesValidApiKey ==
  /\ aresp.req.apiKey = Str(MASTER_API_KEY)
  /\ Truthy(aresp.req.tenantId)

\* C6. The credential mode is chosen by the shape of the request: one with
\* an Authorization header starting 'Bearer ' is judged by its token alone,
\* so an invalid or expired token is rejected with 401 whatever x-api-key and
\* x-tenant-id come with it; the shared-secret mode is tried only for a
\* request without such a header, and admits only the master key with a
\* tenant id.
C6_ModeByHeader ==
  (aresp.req # NoRequest) =>
    /\ CarriesRefusedToken => (aresp.status = 401 /\ ~aresp.next)
    /\ (aresp.req.authorization.kind = "Bearer" /\ aresp.next) =>
          aresp.tenantId = aresp.req.authorization.token.tenantId
    /\ (aresp.req.authorization.kind # "Bearer" /\ aresp.next) =>
          (CarriesValidApiKey /\ aresp.tenantId = aresp.req.tenantId)

\* A refused token that came with the master key and a tenant id: 401.
C6_Witness ==
  /\ CarriesRefusedToken
  /\ CarriesValidApiKey
  /\ aresp.status = 401

\* C6 as stated: a request with an invalid or expired Bearer token and a
\* valid x-api-key and x-tenant-id is admitted through the shared secret.
C6_Original ==
  (CarriesRefusedToken /\ CarriesValidApiKey) =>
    (aresp.next /\ aresp.tenantId = aresp.req.tenantId)

(***************************************************************************)
(* middleware/security.js: validateApiKey and isolateTenantPaths.          *)
(***************************************************************************)
KeyLifetimeMs == 86400000

\* Buffer.from(s).toString('base64'): the text s in its base64 spelling;
\* the empty text spells as the empty text.
Base64Encode(s) == IF s = <<>> THEN <<>> ELSE <<"b64[">> \o s \o <<"]">>

\* Buffer.from(x, 'base64').toString(): the text a base64 spelling stands
\* for. The decoder skips characters outside the base64 alphabet, so a
\* text of such characters only ("!") decodes to the empty text; other
\* texts decode to bytes that spell nothing.
Base64Decode(x) ==
  IF Len(x) >= 2 /\ x[1] = "b64[" /\ x[Len(x)] = "]" THEN SubSeq(x, 2, Len(x) - 1)
  ELSE IF \A i \in 1..Len(x) : x[i] = "!" THEN <<>>
  ELSE <<"?">>

\* s.replace('Bearer ', ''): s without the first 'Bearer ' in it
ReplaceBearer(s) ==
  LET at == {i \in 1..(Len(s) - 1) : s[i] = "Bearer" /\ s[i + 1] = " "}
  IN IF at = {} THEN s
     ELSE LET i == CHOOSE i \in at : \A j \in at : i <= j
          IN SubSeq(s, 1, i - 1) \o SubSeq(s, i + 2, Len(s))

\* process.env: the tenant secrets the deployment configures
Env == (<<"TENANT", "_", "SECRET", "_", "base44">> :> Str(<<"senha123">>))

\* process.env[name]
GetEnv(name) == IF name \in DOMAIN Env THEN Env[name] ELSE Undefined

\* parts[i] of an array destructuring: undefined past the end
Part(parts, i) == IF i <= Len(parts) THEN Str(parts[i]) ELSE Undefined

MwRejected(status, error) ==
  [status |-> status, error |-> error, next |-> FALSE, tenantId |-> Undefined,
   tenantPaths |-> Undefined]

MwAdmitted(tenantId) ==
  [status |-> 0, error |-> "", next |-> TRUE, tenantId |-> tenantId,
   tenantPaths |-> Undefined]

\* validateApiKey(req, res, next) at time t, for the two headers it reads
validateApiKey(headers, t) ==
  LET apiKey == IF Truthy(headers.xApiKey) THEN headers.xApiKey ELSE headers.authorization
  IN IF ~Truthy(apiKey) THEN MwRejected(401, "API Key required")
     ELSE LET decoded == Base64Decode(ReplaceBearer(apiKey.s))
              parts == Split(decoded, ":")
              tenantId == Part(parts, 1)
              secret == Part(parts, 2)
              timestamp == Part(parts, 3)
              issued == IF IsString(timestamp) THEN parseInt(timestamp.s) ELSE NaN
              expired == ~issued.nan /\ t - issued.n > KeyLifetimeMs
              expectedSecret == GetEnv(<<"TENANT", "_", "SECRET", "_">> \o tenantId.s)
          IN IF expired THEN MwRejected(401, "API Key expired")
             ELSE IF secret # expectedSecret THEN MwRejected(401, "Invalid API Key")
             ELSE MwAdmitted(tenantId)

\* `tenants/${tenantId}/${dir}`
TenantPath(tenantId, dir) == <<"tenants", "/">> \o tenantId \o <<"/", dir>>

\* isolateTenantPaths without the return in front of res.status(500): the
\* stage answers and goes on to build the paths and to call next
isolateTenantPaths_NoReturn(tenantId) ==
  LET id == IF IsString(tenantId) THEN tenantId.s ELSE <<"undefined">>
  IN [status |-> IF ~Truthy(tenantId) THEN 500 ELSE 0,
      error |-> IF ~Truthy(tenantId) THEN "Tenant ID not set" ELSE "",
      next |-> TRUE, tenantId |-> tenantId,
      tenantPaths |-> [t |-> "object",
                       templates |-> TenantPath(id, "templates"),
                       documents |-> TenantPath(id, "documents"),
                       temp |-> TenantPath(id, "temp"),
                       logs |-> TenantPath(id, "logs")]]

\* isolateTenantPaths(req, res, next) for a request with this tenantId
isolateTenantPaths(tenantId) ==
  IF ~Truthy(tenantId)
  THEN [status |-> 500, error |-> "Tenant ID not set", next |-> FALSE,
        tenantId |-> tenantId, tenantPaths |-> Undefined]
  ELSE [status |-> 0, error |-> "", next |-> TRUE, tenantId |-> tenantId,
        tenantPaths |-> [t |-> "object",
                         templates |-> TenantPath(tenantId.s, "templates"),
                         documents |-> TenantPath(tenantId.s, "documents"),
                         temp |-> TenantPath(tenantId.s, "temp"),
                         logs |-> TenantPath(tenantId.s, "logs")]]

(***************************************************************************)
(* Specification of the security.js middleware chain.                      *)
(***************************************************************************)
MwStartMs == 630000

NoHeaders == [xApiKey |-> Undefined, authorization |-> Undefined]
NoMwResponse == [stage |-> "none", status |-> 0, error |-> "", next |-> FALSE,
                 tenantId |-> Undefined, tenantPaths |-> Undefined]

MwInit ==
  /\ mnow = MwStartMs
  /\ mkeys = {}
  /\ mreq = NoHeaders
  /\ mres = NoMwResponse

MwIdle == MwInit

\* gerar-api-key.js run now: tenantId + ':' + secret + ':' + timestamp
GenerateApiKey ==
  /\ Cardinality(mkeys) < MaxKeys
  /\ mkeys' = mkeys \cup {<<"base44", ":", "senha123", ":">> \o ToDigits(mnow)}
  /\ UNCHANGED <<mnow, mreq, mres, outsideMw>>

\* The texts a client may put, base64-spelled, in a key header.
KeyTexts ==
  mkeys \cup {<<"base44", ":", "senha123">>,
              <<"base44", ":", "wrong", ":">> \o ToDigits(MwStartMs),
              <<"base44">>,
              <<"ghost">>,
              <<"ghost", ":", "senha123", ":">> \o ToDigits(MwStartMs),
              <<>>}

KeyHeaders ==
  {Undefined, Str(<<"!">>)} \cup {Str(Base64Encode(k)) : k \in KeyTexts}
    \cup {Str(<<"Bearer", " ">> \o Base64Encode(k)) : k \in KeyTexts}

\* A request enters the chain: validateApiKey runs on it.
ValidateApiKey(headers) ==
  /\ mreq' = headers
  /\ LET r == validateApiKey(headers, mnow)
     IN mres' = [stage |-> "validateApiKey", status |-> r.status, error |-> r.error,
                 next |-> r.next, tenantId |-> r.tenantId, tenantPaths |-> r.tenantPaths]
  /\ UNCHANGED <<mnow, mkeys, outsideMw>>

\* validateApiKey called next: isolateTenantPaths runs on the request.
IsolateTenantPaths ==
  /\ mres.stage = "validateApiKey"
  /\ mres.next
  /\ LET r == isolateTenantPaths(mres.tenantId)
     IN mres' = [stage |-> "isolateTenantPaths", status |-> r.status, error |-> r.error,
                 next |-> r.next, tenantId |-> r.tenantId, tenantPaths |-> r.tenantPaths]
  /\ UNCHANGED <<mnow, mkeys, mreq, outsideMw>>

\* The instants a key's validity can change at.
MwInstants ==
  {t \in {mnow + 1} : mnow < MwStartMs + MwSlackMs}
    \cup {parseInt(Split(k, ":")[3]).n + KeyLifetimeMs : k \in mkeys}
    \cup {parseInt(Split(k, ":")[3]).n + KeyLifetimeMs + 1 : k \in mkeys}

\* Time passes until instant t, between requests.
MwTickTo(t) ==
  /\ t > mnow
  /\ mnow' = t
  /\ mreq' = NoHeaders
  /\ mres' = NoMwResponse
  /\ UNCHANGED <<mkeys, outsideMw>>

MwNext ==
  \/ \E h \in KeyHeaders : ValidateApiKey([xApiKey |-> h, authorization |-> Undefined])
  \/ \E h \in KeyHeaders : ValidateApiKey([xApiKey |-> Undefined, authorization |-> h])
  \/ IsolateTenantPaths
  \/ GenerateApiKey
  \/ \E t \in MwInstants : MwTickTo(t)

\* The text the key header of the last request spells.
PresentedKey ==
  LET h == IF Truthy(mreq.xApiKey) THEN mreq.xApiKey ELSE mreq.authorization
  IN Split(Base64Decode(ReplaceBearer(h.s)), ":")

\* C4. In shared-secret mode a request is authenticated only if the key's
\* secret equals the secret configured for the claimed tenant; for every
\* tenant identifier, including one with no secret configured, and every
\* key shape, including one with no secret part, a mismatch is rejected
\* with 401.
C4_SecretMustMatch ==
  (mres.stage = "validateApiKey" /\ mres.next) =>
    LET name == <<"TENANT", "_", "SECRET", "_">> \o PresentedKey[1]
    IN /\ Len(PresentedKey) >= 2
       /\ name \in DOMAIN Env
       /\ Str(PresentedKey[2]) = Env[name]

\* C5. Every request that passes credential validation carries a
\* non-empty tenantId and a credential that is not expired at the time of
\* the request: validateApiKey admits a key only if its timestamp is
\* present and at most 24 hours old.
C5_AdmittedKeyIsFresh ==
  (mres.stage = "validateApiKey" /\ mres.next) =>
    /\ mres.tenantId # Str(<<>>)
    /\ Len(PresentedKey) >= 3
    /\ ~parseInt(PresentedKey[3]).nan
    /\ mnow - parseInt(PresentedKey[3]).n <= KeyLifetimeMs

(***************************************************************************)
(* server.js template routes and r2-storage.js.                            *)
(***************************************************************************)
\* The property name that reads an object's prototype.
ProtoName == <<"__proto__">>

\* `tenants/${tenantId}/templates/${templateId}.docx`
R2Key(tenantId, templateId) ==
  <<"tenants", "/">> \o tenantId \o <<"/", "templates", "/">> \o templateId
    \o <<".", "docx">>

NoBuffer == [t |-> "buffer", by |-> <<>>, id |-> <<>>]
\* The file tenant `by` uploaded when the upload drew the id `id`.
FileOf(by, id) == [t |-> "buffer", by |-> by, id |-> id]

\* The entry upload puts in the store: the metadata and the buffer.
UploadedTemplate(tenantId, templateId) ==
  [id |-> Str(templateId), name |-> Str(<<"contrato">>), uploadedBy |-> Str(tenantId),
   buffer |-> FileOf(tenantId, templateId)]

\* The entry a lookup caches from R2: buffer, name and the object's
\* metadata, whose keys come back lower-cased, so the name is the default
\* and there is no id.
CachedTemplate(r2Data) ==
  [id |-> Undefined, name |-> Str(<<"Template">>), uploadedBy |-> Undefined,
   buffer |-> r2Data.buffer]

\* templateStore[tenantId]?.[templateId]: the own property of the tenant's
\* object, else the one inherited from Object.prototype; for the tenant
\* named __proto__ the object is Object.prototype itself.
StoreGet(store, proto, tenantId, templateId) ==
  IF tenantId = ProtoName
  THEN IF templateId \in DOMAIN proto THEN proto[templateId] ELSE Undefined
  ELSE IF tenantId \notin DOMAIN store THEN Undefined
  ELSE IF templateId \in DOMAIN store[tenantId] THEN store[tenantId][templateId]
  ELSE IF templateId \in DOMAIN proto THEN proto[templateId]
  ELSE Undefined

\* if (!templateStore[tenantId]) templateStore[tenantId] = {};
\* templateStore[tenantId][templateId] = template
StorePut(store, proto, tenantId, templateId, template) ==
  IF tenantId = ProtoName
  THEN [store |-> store,
        proto |-> [k \in DOMAIN proto \cup {templateId} |->
                     IF k = templateId THEN template ELSE proto[k]]]
  ELSE LET own == IF tenantId \in DOMAIN store THEN store[tenantId] ELSE << >>
           new == [k \in DOMAIN own \cup {templateId} |->
                     IF k = templateId THEN template ELSE own[k]]
       IN [store |-> [k \in DOMAIN store \cup {tenantId} |->
                        IF k = tenantId THEN new ELSE store[k]],
           proto |-> proto]

\* delete templateStore[tenantId][templateId]: removes an own property
StoreDelete(store, proto, tenantId, templateId) ==
  IF tenantId = ProtoName
  THEN [store |-> store,
        proto |-> [k \in DOMAIN proto \ {templateId} |-> proto[k]]]
  ELSE IF tenantId \notin DOMAIN store THEN [store |-> store, proto |-> proto]
  ELSE [store |-> [k \in DOMAIN store |->
                     IF k = tenantId
                     THEN [i \in DOMAIN store[k] \ {templateId} |-> store[k][i]]
                     ELSE store[k]],
        proto |-> proto]

\* Object.values(templateStore[tenantId] || {}): the own properties
StoreValues(store, proto, tenantId) ==
  IF tenantId = ProtoName THEN {proto[k] : k \in DOMAIN proto}
  ELSE IF tenantId \in DOMAIN store THEN {store[tenantId][k] : k \in DOMAIN store[tenantId]}
  ELSE {}

\* The template a lookup ended with, and the response it gives.
TemplateResponse(op, tenantId, templateId, template) ==
  [op |-> op, tenantId |-> tenantId, templateId |-> templateId,
   status |-> IF template = Undefined THEN 404 ELSE 200,
   error |-> IF template = Undefined THEN "Template not found" ELSE "",
   served |-> IF template = Undefined THEN NoBuffer ELSE template.buffer,
   listed |-> {}]

(***************************************************************************)
(* Specification of the template routes.                                   *)
(***************************************************************************)
TplTenants == {<<"a">>, <<"a", "/", "templates">>, ProtoName}
TemplateIds == {<<"tmpl", "_", "1">>, <<"tmpl", "_", "2">>}
Lookups == {"variables", "generate"}

NoTplResponse ==
  [op |-> "none", tenantId |-> <<>>, templateId |-> <<>>, status |-> 0, error |-> "",
   served |-> NoBuffer, listed |-> {}]

TplInit ==
  /\ templateStore = << >>
  /\ objectPrototype = << >>
  /\ r2Configured \in BOOLEAN
  /\ r2Objects = << >>
  /\ pending = {}
  /\ tres = NoTplResponse
  /\ nUploads = 0
  /\ watched = <<>>
  /\ deleted = FALSE
  /\ latePending = {}
  /\ late = FALSE

\* The template routes with the deletes of one template followed.
WatchedTemplate == <<<<"a">>, <<"tmpl", "_", "1">>>>

DeleteInit ==
  /\ templateStore = << >>
  /\ objectPrototype = << >>
  /\ r2Configured \in BOOLEAN
  /\ r2Objects = << >>
  /\ pending = {}
  /\ tres = NoTplResponse
  /\ nUploads = 0
  /\ watched = WatchedTemplate
  /\ deleted = FALSE
  /\ latePending = {}
  /\ late = FALSE

TplIdle ==
  /\ templateStore = << >>
  /\ objectPrototype = << >>
  /\ r2Configured = FALSE
  /\ r2Objects = << >>
  /\ pending = {}
  /\ tres = NoTplResponse
  /\ nUploads = 0
  /\ watched = <<>>
  /\ deleted = FALSE
  /\ latePending = {}
  /\ late = FALSE

\* POST /api/templates/upload by an authenticated tenant: the id drawn is
\* templateId; saved marks whether the R2 put succeeded.
Upload(tenantId, templateId, saved) ==
  /\ nUploads < MaxUploads
  /\ LET template == UploadedTemplate(tenantId, templateId)
         put == StorePut(templateStore, objectPrototype, tenantId, templateId, template)
         key == R2Key(tenantId, templateId)
     IN /\ templateStore' = put.store
        /\ objectPrototype' = put.proto
        /\ r2Objects' = IF r2Configured /\ saved
                        THEN [k \in DOMAIN r2Objects \cup {key} |->
                                IF k = key THEN [buffer |-> template.buffer, tenantId |-> tenantId]
                                ELSE r2Objects[k]]
                        ELSE r2Objects
        /\ tres' = [op |-> "upload", tenantId |-> tenantId, templateId |-> templateId,
                    status |-> 200, error |-> "", served |-> NoBuffer, listed |-> {}]
  /\ nUploads' = nUploads + 1
  /\ deleted' = (deleted /\ <<tenantId, templateId>> # watched)
  /\ latePending' = {p \in latePending : p.tenantId # tenantId \/ p.templateId # templateId}
  /\ late' = FALSE
  /\ UNCHANGED <<r2Configured, pending, watched, outsideTpl>>

\* GET /api/templates by an authenticated tenant.
List(tenantId) ==
  /\ tres' = [op |-> "list", tenantId |-> tenantId, templateId |-> <<>>, status |-> 200,
              error |-> "", served |-> NoBuffer,
              listed |-> {t.buffer : t \in StoreValues(templateStore, objectPrototype, tenantId)}]
  /\ late' = FALSE
  /\ UNCHANGED <<templateStore, objectPrototype, r2Configured, r2Objects, pending,
                 nUploads, watched, deleted, latePending, outsideTpl>>

\* GET /api/templates/:templateId/variables and POST /api/documents/generate
\* with a templateId, up to the answer or the await of getTemplate.
Lookup(op, tenantId, templateId) ==
  LET template == StoreGet(templateStore, objectPrototype, tenantId, templateId)
  IN /\ IF template = Undefined /\ r2Configured
        THEN /\ Cardinality(pending) < MaxPending
             /\ pending' = pending \cup {[op |-> op, tenantId |-> tenantId,
                                           templateId |-> templateId]}
             /\ latePending' =
                  IF deleted /\ <<tenantId, templateId>> = watched
                  THEN latePending \cup {[op |-> op, tenantId |-> tenantId,
                                          templateId |-> templateId]}
                  ELSE latePending
             /\ UNCHANGED <<tres, late>>
        ELSE /\ tres' = TemplateResponse(op, tenantId, templateId, template)
             /\ late' = (deleted /\ <<tenantId, templateId>> = watched)
             /\ UNCHANGED <<pending, latePending>>
     /\ UNCHANGED <<templateStore, objectPrototype, r2Configured, r2Objects, nUploads,
                    watched, deleted, outsideTpl>>

\* getTemplate answers a waiting lookup: the object at the tenant's key,
\* or null when there is none or the fetch failed; what it returned is
\* cached in the store.
GetTemplateReturns(p, failed) ==
  /\ p \in pending
  /\ pending' = pending \ {p}
  /\ LET key == R2Key(p.tenantId, p.templateId)
         r2Data == IF ~failed /\ key \in DOMAIN r2Objects THEN r2Objects[key] ELSE Null
     IN IF r2Data = Null
        THEN /\ tres' = TemplateResponse(p.op, p.tenantId, p.templateId, Undefined)
             /\ UNCHANGED <<templateStore, objectPrototype>>
        ELSE LET template == CachedTemplate(r2Data)
                 put == StorePut(templateStore, objectPrototype, p.tenantId, p.templateId,
                                 template)
             IN /\ templateStore' = put.store
                /\ objectPrototype' = put.proto
                /\ tres' = TemplateResponse(p.op, p.tenantId, p.templateId, template)
  /\ late' = (p \in latePending)
  /\ latePending' = latePending \ {p}
  /\ UNCHANGED <<r2Configured, r2Objects, nUploads, watched, deleted, outsideTpl>>

\* DELETE /api/templates/:templateId by an authenticated tenant.
Delete(tenantId, templateId) ==
  /\ LET del == IF StoreGet(templateStore, objectPrototype, tenantId, templateId) # Undefined
                THEN StoreDelete(templateStore, objectPrototype, tenantId, templateId)
                ELSE [store |-> templateStore, proto |-> objectPrototype]
     IN /\ templateStore' = del.store
        /\ objectPrototype' = del.proto
  /\ tres' = [op |-> "delete", tenantId |-> tenantId, templateId |-> templateId,
              status |-> 200, error |-> "", served |-> NoBuffer, listed |-> {}]
  /\ deleted' = (deleted \/ <<tenantId, templateId>> = watched)
  /\ late' = FALSE
  /\ UNCHANGED <<r2Configured, r2Objects, pending, nUploads, watched, latePending, outsideTpl>>

TplNext ==
  \/ \E t \in TplTenants, i \in TemplateIds, saved \in BOOLEAN : Upload(t, i, saved)
  \/ \E t \in TplTenants : List(t)
  \/ \E op \in Lookups, t \in TplTenants, i \in TemplateIds : Lookup(op, t, i)
  \/ \E p \in pending, failed \in BOOLEAN : GetTemplateReturns(p, failed)
  \/ \E t \in TplTenants, i \in TemplateIds : Delete(t, i)

\* The template id is stored under the tenant: as an own property of the
\* tenant's object in the store, or in the bucket at the tenant's key.
StoredUnder(tenantId, templateId) ==
  \/ IF tenantId = ProtoName THEN templateId \in DOMAIN objectPrototype
     ELSE tenantId \in DOMAIN templateStore /\ templateId \in DOMAIN templateStore[tenantId]
  \/ R2Key(tenantId, templateId) \in DOMAIN r2Objects

\* C2. A request authenticated as tenant A that names a template id stored
\* only under another tenant gets 404 'Template not found': it never
\* renders or returns the variables of that template, and a list shows
\* only what is stored under the tenant who asks.
C2_TemplateIsolation ==
  /\ (tres.op \in Lookups /\ ~StoredUnder(tres.tenantId, tres.templateId)) =>
       (tres.status = 404 /\ tres.served = NoBuffer)
  /\ tres.op = "list" => \A b \in tres.listed : b.by = tres.tenantId

\* Whether path p is path q or lies inside it.
Inside(p, q) ==
  \/ p = q
  \/ Len(p) > Len(q) /\ SubSeq(p, 1, Len(q) + 1) = q \o <<"/">>

\* The paths and the R2 key prefix a tenant id gives.
Namespaces(tenantId) ==
  LET paths == isolateTenantPaths(Str(tenantId)).tenantPaths
  IN {paths.templates, paths.documents, paths.temp, paths.logs,
      <<"tenants", "/">> \o tenantId \o <<"/", "templates">>}

\* C7. For every two distinct tenant identifiers credential validation
\* accepted, no path or R2 key prefix of the one equals, or lies inside,
\* one of the other.
C7_NamespacesDisjoint ==
  \A t1, t2 \in DOMAIN templateStore :
    t1 # t2 => \A p \in Namespaces(t1), q \in Namespaces(t2) : ~Inside(p, q)

\* C14. Once a tenant's delete of a template id has succeeded, every
\* later generate or variables request of that tenant for the id is
\* answered 404, and the id is in no later list of the tenant: with R2
\* configured or not, and however the requests interleave.
C14_DeletedStaysDeleted ==
  /\ (tres.op \in Lookups /\ late) => tres.status = 404
  /\ (tres.op = "list" /\ deleted /\ tres.tenantId = watched[1]) =>
       \A b \in tres.listed : b.id # watched[2]

(***************************************************************************)
(* Specification of the DocumentGenerator calls.                           *)
(***************************************************************************)
CpfExample == <<"1", "2", "3", "4", "5", "6", "7", "8", "9", "0", "0">>
CpfAlphabet == {"1", "9", "."}
CpfInputs == SeqsUpTo(CpfAlphabet, MaxCpfLen) \cup {CpfExample}

DataKeys ==
  { <<"cpf">>, <<"cnpj">>, <<"valor", "_", "total">>, <<"preco">>,
    <<"data", "_", "contrato">>, <<"nome">>, <<"cpf", "_", "formatado">>,
    <<"hoje">>, <<"tem">>, <<"itens">>, <<"valor", "_", "cpf">> }

DataValues ==
  { Str(CpfExample), Str(<<"1", "2", "3">>), Str(<<>>), Str(DateString),
    Str(<<"Ana">>), Num(5000), Num(100), Num(0), Null, Bool(TRUE), Bool(FALSE),
    Obj("o"), Arr(<<>>), Arr(<<Str(<<"x">>), Obj("o")>>) }

DataEntries == {[k |-> k, v |-> v] : k \in DataKeys, v \in DataValues}

\* The input mappings: up to MaxEntries entries with distinct keys.
DataInputs ==
  {o \in SeqsUpTo(DataEntries, MaxEntries) :
     \A i, j \in 1..Len(o) : i # j => o[i].k # o[j].k}

Clocks ==
  { [invalid |-> FALSE, d |-> 5, m |-> 3, y |-> 2024, h |-> 9, mi |-> 7],
    [invalid |-> FALSE, d |-> 15, m |-> 11, y |-> 2026, h |-> 14, mi |-> 30] }

\* The call is drawn at the start: formatCPF on a string, or processData on
\* a mapping at a wall-clock date.
DataInit ==
  /\ \/ \E s \in CpfInputs : dcall = [fn |-> "formatCPF", arg |-> Str(s)]
     \/ \E o \in DataInputs, c \in Clocks :
          dcall = [fn |-> "processData", arg |-> o, today |-> c]
  /\ dret = NoRet

DataIdle ==
  /\ dcall = NoCall
  /\ dret = NoRet

RunFormatCPF ==
  /\ dcall.fn = "formatCPF"
  /\ dret = NoRet
  /\ dret' = formatCPF(dcall.arg)
  /\ UNCHANGED <<dcall, outsideData>>

RunProcessData ==
  /\ dcall.fn = "processData"
  /\ dret = NoRet
  /\ dret' = processData(dcall.arg, dcall.today)
  /\ UNCHANGED <<dcall, outsideData>>

DataNext == RunFormatCPF \/ RunProcessData

C10_ProcessDataNeverThrows ==
  (dcall.fn = "processData" /\ dret # NoRet) => ~dret.threw

\* C18.  For every input key whose name contains 'valor' or 'preco',
\* processData adds the key '<key>_formatado' holding the currency
\* rendering of the value if and only if the value is a number; a
\* non-numeric value under such a key yields no sibling key.
C18_CurrencySibling ==
  (dcall.fn = "processData" /\ dret # NoRet) =>
    \A i \in 1..Len(dcall.arg) :
      LET key == dcall.arg[i].k
          value == dcall.arg[i].v
      IN (Includes(key, "valor") \/ Includes(key, "preco")) =>
           /\ ~dret.threw
           /\ IsNumber(value) =>
                ObjGet(dret.v.props, Formatado(key)) = Str(formatCurrency(value.n))
           /\ (~IsNumber(value) /\ ~ObjHas(dcall.arg, Formatado(key))) =>
                ~ObjHas(dret.v.props, Formatado(key))

\* C19.  For every input mapping, the output of processData has a mapping
\* 'tem' whose keys are exactly the top-level keys of the input, with
\* tem[k] true when the input value is truthy and false otherwise.
C19_TemMapping ==
  (dcall.fn = "processData" /\ dret # NoRet) =>
    /\ ~dret.threw
    /\ LET tem == ObjGet(dret.v.props, <<"tem">>)
       IN /\ tem.t = "record"
          /\ {tem.props[i].k : i \in 1..Len(tem.props)}
               = {dcall.arg[i].k : i \in 1..Len(dcall.arg)}
          /\ \A i \in 1..Len(dcall.arg) :
               ObjGet(tem.props, dcall.arg[i].k) = Bool(Truthy(dcall.arg[i].v))

\* C20.  processData only adds keys: when it returns, every key of the
\* input whose value is not an array is mapped by the output to the value
\* the input gave it, also when the key is one processData writes itself
\* ('hoje', 'agora', 'tem', a '_formatado' key).
C20_OnlyAddsKeys ==
  (dcall.fn = "processData" /\ dret # NoRet /\ ~dret.threw) =>
    \A i \in 1..Len(dcall.arg) :
      ~IsArray(dcall.arg[i].v) =>
        ObjGet(dret.v.props, dcall.arg[i].k) = dcall.arg[i].v

(***************************************************************************)
(* server.js: isValidTemplateUrl.  A URL string is a sequence of pieces:   *)
(* the scheme, the separators ":", "/", ".", "[", "]", the labels of the   *)
(* host, and one piece per digit of a number.  The URLs of the model carry *)
(* no userinfo, no port, and their numbers are decimal without leading     *)
(* zeros.                                                                  *)
(***************************************************************************)
\* ASCII lower case of the pieces the model uses
ToLowerCase(p) ==
  CASE p = "HTTPS" -> "https"
    [] p = "LOCALHOST" -> "localhost"
    [] OTHER -> p

\* The schemes new URL() knows as special; their host is parsed and checked.
SpecialSchemes == {"https", "http", "ftp"}

\* A label that spells a decimal number
IsNumeric(label) == label # <<>> /\ \A i \in 1..Len(label) : label[i] \in Digits

RECURSIVE Join(_, _)
\* parts.join(sep)
Join(parts, sep) ==
  IF parts = <<>> THEN <<>>
  ELSE IF Len(parts) = 1 THEN parts[1]
  ELSE parts[1] \o sep \o Join(Tail(parts), sep)

RECURSIVE Pow256(_)
Pow256(n) == IF n = 0 THEN 1 ELSE 256 * Pow256(n - 1)

\* The WHATWG IPv4 parser on the numeric labels of a host: every label but
\* the last is one byte, the last fills the bytes that remain; the result
\* is the dotted quad, or a failure.
ParseIPv4(labels) ==
  LET n == Len(labels)
      val(i) == LeadingInt(labels[i], 0)
      byte(j) == IF j < n THEN val(j) ELSE (val(n) \div Pow256(4 - j)) % 256
  IN IF n > 4 \/ \E i \in 1..n : ~IsNumeric(labels[i]) THEN [ok |-> FALSE]
     ELSE IF \E i \in 1..(n - 1) : val(i) > 255 THEN [ok |-> FALSE]
     ELSE IF n > 1 /\ val(n) >= Pow256(5 - n) THEN [ok |-> FALSE]
     ELSE [ok |-> TRUE,
           host |-> Join(<<ToDigits(byte(1)), ToDigits(byte(2)), ToDigits(byte(3)),
                           ToDigits(byte(4))>>, <<".">>)]

\* The host parser: a bracketed IPv6 address is kept, a host whose last
\* label is a number is an IPv4 address and is rewritten as a dotted quad,
\* any other host is a domain in lower case.
ParseHost(host) ==
  IF host = <<>> THEN [ok |-> FALSE]
  ELSE IF Head(host) = "[" THEN [ok |-> host[Len(host)] = "]", host |-> host]
  ELSE LET labels == Split(host, ".")
           n == Len(labels)
           sig == IF n > 1 /\ labels[n] = <<>> THEN SubSeq(labels, 1, n - 1) ELSE labels
       IN IF IsNumeric(sig[Len(sig)]) THEN ParseIPv4(sig)
          ELSE [ok |-> TRUE, host |-> [i \in 1..Len(host) |-> ToLowerCase(host[i])]]

\* new URL(url) for an absolute URL: the scheme up to the first ":", then
\* for a special scheme any number of "/", the host up to the next "/".
\* Anything without a scheme, or with a host the parser refuses, throws.
NewURL(url) ==
  IF Len(url) < 2 \/ url[2] # ":" \/ ToLowerCase(url[1]) \notin SpecialSchemes
  THEN Threw("TypeError")
  ELSE LET rest == SubSeq(url, 3, Len(url))
           slashes == CHOOSE k \in 0..Len(rest) :
                        /\ \A j \in 1..k : rest[j] = "/"
                        /\ (k < Len(rest) => rest[k + 1] # "/")
           after == SubSeq(rest, slashes + 1, Len(rest))
           host == Head(Split(after, "/"))
           parsed == ParseHost(host)
       IN IF ~parsed.ok THEN Threw("TypeError")
          ELSE Ret([protocol |-> <<ToLowerCase(url[1]), ":">>, hostname |-> parsed.host])

\* s.startsWith(prefix)
StartsWith(s, prefix) == Len(s) >= Len(prefix) /\ SubSeq(s, 1, Len(prefix)) = prefix

\* isValidTemplateUrl(url)
isValidTemplateUrl(url) ==
  LET parsed == NewURL(url)
  IN IF parsed.threw THEN FALSE
     ELSE IF parsed.v.protocol # <<"https", ":">> THEN FALSE
     ELSE IF \/ parsed.v.hostname = <<"localhost">>
             \/ parsed.v.hostname = <<"1", "2", "7", ".", "0", ".", "0", ".", "1">>
             \/ StartsWith(parsed.v.hostname, <<"1", "9", "2", ".", "1", "6", "8", ".">>)
             \/ StartsWith(parsed.v.hostname, <<"1", "0", ".">>)
       THEN FALSE
     ELSE TRUE

(***************************************************************************)
(* Document generation: server.js POST /api/documents/generate, the        *)
(* earlier server of StorageService.js, DocumentGenerator.generate and     *)
(* pdf-converter.js.  A message is a sequence of pieces: a fixed phrase is *)
(* one piece, a tag name spliced into it is a piece of its own.  A buffer  *)
(* is [t, content, len] with a symbolic content.  The file name of a       *)
(* response (a timestamp) and its sizes are left out.                      *)
(***************************************************************************)
Buf(content, len) == [t |-> "buffer", content |-> content, len |-> len]

\* Buffer.from(buf).toString('base64'): the empty string for an empty buffer
ToBase64(buf) == IF buf.len = 0 THEN Str(<<>>) ELSE Str(<<"base64", ":">> \o buf.content)

\* An Error object: name, message, and error.properties.errors when the
\* error carries sub-errors (hasErrors).
JsError(name, message) ==
  [name |-> name, message |-> message, hasErrors |-> FALSE, errors |-> <<>>]

\* The error docxtemplater throws for a template with several faults.
MultiError(errors) ==
  [name |-> "TemplateError", message |-> <<"Multi error">>, hasErrors |-> TRUE,
   errors |-> errors]

\* error.stack: the name, the message and the stack frames
Stack(error) == <<error.name, ":", " ">> \o error.message \o <<"\n", "    at ", "server.js">>

\* DocumentGenerator.getErrorMessage(error)
getErrorMessage(error) ==
  IF error.hasErrors
  THEN Join([i \in 1..Len(error.errors) |->
               IF error.errors[i].type = "tag_not_found"
               THEN <<"Variável não encontrada nos dados", ":", " ", error.errors[i].tag>>
               ELSE error.errors[i].message],
            <<",", " ">>)
  ELSE error.message

\* DocumentGenerator.generate(templatePath, data) from processData on:
\* processData may throw (formatCPF of a number), a render failure is
\* thrown again under a new message, and the path of the file written is
\* returned.
DocumentGeneratorGenerate(data, today, render) ==
  LET processedData == processData(data, today)
  IN IF processedData.threw
     THEN Threw(JsError("TypeError", <<"cpf.replace is not a function">>))
     ELSE IF render.threw
     THEN Threw(JsError("Error", <<"Erro ao processar template", ":", " ">>
                                   \o getErrorMessage(render.e)))
     ELSE Ret(Str(<<"output", "/", "document", "_", "uuid", ".", "docx">>))

\* pdf-converter.js convertToPDF(docxBuffer): null when not configured, the
\* decoded FileData of the first file ConvertAPI answered with, null for any
\* other answer and for every error of the request (its catch returns null).
PdfConvertToPDF(converter, docxBuffer, api) ==
  IF ~converter.isConfigured THEN Null
  ELSE CASE api = "pdf" -> Buf(<<"pdf", "of">> \o docxBuffer.content, 1)
         [] api = "empty" -> Buf(<<>>, 0)
         [] api = "no FileData" -> Null
         [] api = "no Files" -> Null
         [] api = "error" -> Null
         [] api = "timeout" -> Null

\* server.js convertToPDF(docxBuffer)
convertToPDF(converter, docxBuffer, api) ==
  IF ~converter.loaded THEN Null
  ELSE PdfConvertToPDF(converter, docxBuffer, api)

\* The formats object of a response that has none.
NoFormats == [present |-> FALSE, docx |-> Undefined, pdf |-> Undefined]

\* A response of a generate route; a key the body does not carry reads
\* undefined.
GenResponse(status, error, details, fetched) ==
  [status |-> status, success |-> Undefined, error |-> Str(error), details |-> details,
   base64 |-> Undefined, formats |-> NoFormats, warning |-> Undefined, tenant |-> Undefined,
   fetched |-> fetched]

\* A variant of the catch block that hands out the stack in every
\* deployment.
GenerateCatch_AlwaysStack(error, env, fetched) ==
  LET errorMessage == IF env = Str(<<"production">>) THEN <<"Falha ao gerar documento">>
                      ELSE error.message
  IN GenResponse(500, errorMessage, Str(Stack(error)), fetched)

\* The catch block of server.js generate.
GenerateCatch(error, env, fetched) ==
  LET errorMessage == IF env = Str(<<"production">>) THEN <<"Falha ao gerar documento">>
                      ELSE error.message
  IN GenResponse(500, errorMessage,
                 IF env # Str(<<"production">>) THEN Str(Stack(error)) ELSE Undefined,
                 fetched)

\* A response stage that adds the DOCX only when it was asked for, without
\* the fallback for a missing PDF.
GenerateRespond_NoFallback(outputFormat, tenantId, docxBuffer, converter, api, fetched) ==
  LET wantsPdf == outputFormat = Str(<<"pdf">>) \/ outputFormat = Str(<<"both">>)
      pdfBuffer == IF wantsPdf THEN convertToPDF(converter, docxBuffer, api) ELSE Null
      pdfBase64 == IF Truthy(pdfBuffer) THEN ToBase64(pdfBuffer) ELSE Null
      ok == [status |-> 200, success |-> Bool(TRUE), error |-> Undefined,
             details |-> Undefined, base64 |-> Undefined, formats |-> NoFormats,
             warning |-> Undefined, tenant |-> Str(tenantId), fetched |-> fetched]
  IN IF outputFormat = Str(<<"docx">>) /\ ~Truthy(pdfBase64)
     THEN [ok EXCEPT !.base64 = ToBase64(docxBuffer)]
     ELSE [ok EXCEPT
             !.formats =
               [present |-> TRUE,
                docx |-> IF outputFormat = Str(<<"docx">>) \/ outputFormat = Str(<<"both">>)
                        THEN ToBase64(docxBuffer) ELSE Undefined,
                pdf |-> IF Truthy(pdfBase64) /\ wantsPdf THEN pdfBase64 ELSE Undefined]]

\* server.js generate from the PDF stage on: the conversion and the
\* response.
GenerateRespond(outputFormat, tenantId, docxBuffer, converter, api, fetched) ==
  LET wantsPdf == outputFormat = Str(<<"pdf">>) \/ outputFormat = Str(<<"both">>)
      pdfBuffer == IF wantsPdf THEN convertToPDF(converter, docxBuffer, api) ELSE Null
      pdfBase64 == IF Truthy(pdfBuffer) THEN ToBase64(pdfBuffer) ELSE Null
      ok == [status |-> 200, success |-> Bool(TRUE), error |-> Undefined,
             details |-> Undefined, base64 |-> Undefined, formats |-> NoFormats,
             warning |-> Undefined, tenant |-> Str(tenantId), fetched |-> fetched]
  IN IF outputFormat = Str(<<"docx">>) /\ ~Truthy(pdfBase64)
     THEN [ok EXCEPT !.base64 = ToBase64(docxBuffer)]
     ELSE [ok EXCEPT
             !.formats =
               [present |-> TRUE,
                docx |-> IF \/ outputFormat = Str(<<"docx">>)
                            \/ outputFormat = Str(<<"both">>)
                            \/ ~Truthy(pdfBase64)
                        THEN ToBase64(docxBuffer) ELSE Undefined,
                pdf |-> IF Truthy(pdfBase64) /\ wantsPdf THEN pdfBase64 ELSE Undefined],
             !.warning =
               IF outputFormat = Str(<<"pdf">>) /\ ~Truthy(pdfBase64)
               THEN Str(<<"PDF conversion not available, returning DOCX format">>)
               ELSE Undefined]

\* server.js POST /api/documents/generate for an authenticated tenant.
\* template is what the lookup of the templateId ended with; download is
\* what axios.get met, render what PizZip and docxtemplater did with the
\* template and the data, api what ConvertAPI answered.
generate(body, tenantId, template, download, render, api, env, converter) ==
  LET outputFormat == IF body.outputFormat = Undefined THEN Str(<<"docx">>)
                      ELSE body.outputFormat
      hasTemplateId == Truthy(body.templateId) /\ ~Truthy(body.templateUrl)
      hasTemplateUrl == Truthy(body.templateUrl) /\ ~Truthy(body.templateId)
  IN IF ~Truthy(body.data) \/ (~hasTemplateId /\ ~hasTemplateUrl)
     THEN GenResponse(400, <<"Data and (templateId or templateUrl) are required">>,
                      Undefined, FALSE)
     ELSE IF hasTemplateId
     THEN IF template = Undefined
          THEN GenResponse(404, <<"Template not found">>, Undefined, FALSE)
          ELSE IF render.threw THEN GenerateCatch(render.e, env, FALSE)
          ELSE GenerateRespond(outputFormat, tenantId, render.v, converter, api, FALSE)
     ELSE IF ~isValidTemplateUrl(body.templateUrl.s)
          THEN GenResponse(400, <<"Invalid template URL">>, Undefined, FALSE)
          ELSE IF download.threw THEN GenerateCatch(download.e, env, TRUE)
          ELSE IF render.threw THEN GenerateCatch(render.e, env, TRUE)
          ELSE GenerateRespond(outputFormat, tenantId, render.v, converter, api, TRUE)

\* StorageService.js, the earlier server: POST /api/documents/generate.
\* The URL is downloaded as given; the catch block answers with the
\* messages of the sub-errors, or with the message of the error.
generateLegacy(body, download, render) ==
  IF ~Truthy(body.templateUrl) \/ ~Truthy(body.data)
  THEN GenResponse(400, <<"templateUrl and data are required">>, Undefined, FALSE)
  ELSE IF download.threw \/ render.threw
  THEN LET error == IF download.threw THEN download.e ELSE render.e
       IN IF error.hasErrors
          THEN GenResponse(500, <<"Erro no template">>,
                           Str(Join([i \in 1..Len(error.errors) |-> error.errors[i].message],
                                    <<",", " ">>)),
                           TRUE)
          ELSE GenResponse(500, <<"Falha ao gerar documento">>, Str(error.message), TRUE)
  ELSE [status |-> 200, success |-> Bool(TRUE), error |-> Undefined, details |-> Undefined,
        base64 |-> ToBase64(render.v), formats |-> NoFormats, warning |-> Undefined,
        tenant |-> Undefined, fetched |-> TRUE]

\* StorageService.js, the server with per-tenant API keys: POST
\* /api/documents/generate.  The URL is validated before it is downloaded;
\* the catch block answers with the message of the error, or with a fixed
\* message in production.
generateSecured(body, tenantId, download, render, env) ==
  IF ~Truthy(body.templateUrl) \/ ~Truthy(body.data)
  THEN GenResponse(400, <<"templateUrl and data are required">>, Undefined, FALSE)
  ELSE IF ~isValidTemplateUrl(body.templateUrl.s)
  THEN GenResponse(400, <<"Invalid template URL">>, Undefined, FALSE)
  ELSE IF download.threw \/ render.threw
  THEN LET error == IF download.threw THEN download.e ELSE render.e
       IN GenResponse(500,
                      IF env = Str(<<"production">>) THEN <<"Falha ao gerar documento">>
                      ELSE error.message,
                      Undefined, TRUE)
  ELSE [status |-> 200, success |-> Bool(TRUE), error |-> Undefined, details |-> Undefined,
        base64 |-> ToBase64(render.v), formats |-> NoFormats, warning |-> Undefined,
        tenant |-> Str(tenantId), fetched |-> TRUE]

\* The catch block of server.js POST /api/templates/upload.
UploadCatch(error) ==
  GenResponse(500, <<"Upload failed", ":", " ">> \o error.message, Undefined, FALSE)

(***************************************************************************)
(* Specification of document generation: each step is one request, with    *)
(* what its calls met drawn with it.  NODE_ENV and the PDF converter are   *)
(* fixed when the server starts.                                           *)
(***************************************************************************)
GenTenant == <<"acme">>

\* An IPv4 address as written in a URL
Ip(a, b, c, d) == Join(<<ToDigits(a), ToDigits(b), ToDigits(c), ToDigits(d)>>, <<".">>)

Url(scheme, host) == <<scheme, ":", "/", "/">> \o host \o <<"/", "t", ".", "docx">>

TemplateHosts ==
  {<<"example", ".", "com">>, <<"localhost">>, <<"LOCALHOST">>, <<"localhost", ".">>,
   <<"1", "0", ".", "example", ".", "com">>, <<"[", ":", ":", "1", "]">>,
   Ip(127, 0, 0, 1), Ip(127, 0, 0, 2), <<"1", "2", "7", ".", "1">>,
   Ip(10, 0, 0, 5), Ip(192, 168, 1, 1), Ip(172, 16, 0, 1), Ip(172, 32, 0, 1),
   Ip(169, 254, 169, 254), Ip(8, 8, 8, 8)}

TemplateUrls ==
  {Url("https", h) : h \in TemplateHosts}
    \cup {Url("http", <<"example", ".", "com">>), Url("HTTPS", <<"example", ".", "com">>),
          Url("file", <<>>), <<"https", ":", "example", ".", "com">>,
          <<"not a url">>, <<"example", ".", "com", "/", "t", ".", "docx">>}

GenData == Rec(<<[k |-> <<"nome">>, v |-> Str(<<"Ana">>)]>>)

OutputFormats ==
  {Undefined, Str(<<"docx">>), Str(<<"pdf">>), Str(<<"both">>), Str(<<"txt">>)}

GenBody(templateUrl, templateId, data, outputFormat) ==
  [templateUrl |-> templateUrl, templateId |-> templateId, data |-> data,
   outputFormat |-> outputFormat]

GenBodies ==
  {GenBody(Undefined, Str(<<"tmpl", "_", "1">>), GenData, f) : f \in OutputFormats}
    \cup {GenBody(Str(u), Undefined, GenData, Undefined) : u \in TemplateUrls}
    \cup {GenBody(Str(Url("https", <<"example", ".", "com">>)), Undefined, GenData, f) :
            f \in OutputFormats}
    \cup {GenBody(Str(Url("https", <<"example", ".", "com">>)), Str(<<"tmpl", "_", "1">>),
                  GenData, Undefined),
          GenBody(Undefined, Undefined, GenData, Undefined),
          GenBody(Undefined, Str(<<"tmpl", "_", "1">>), Undefined, Undefined),
          GenBody(Undefined, Str(<<"tmpl", "_", "1">>), Null, Str(<<"pdf">>))}

DocxBuffer == Buf(<<"docx">>, 1)
TemplateBuffer == Buf(<<"template">>, 1)

TagNotFound(tag) == [type |-> "tag_not_found", tag |-> tag, message |-> <<"Tag not found">>]
UnclosedTag(tag) ==
  [type |-> "unclosed_tag", tag |-> tag, message |-> <<"Unclosed tag", " ", tag>>]

RenderErrors ==
  {MultiError(<<TagNotFound("nome"), TagNotFound("cpf")>>),
   MultiError(<<UnclosedTag("nome"), TagNotFound("cpf")>>),
   JsError("Error", <<"Corrupted zip">>)}

Renders == {Ret(DocxBuffer)} \cup {Threw(e) : e \in RenderErrors}
Downloads ==
  {Ret(TemplateBuffer), Threw(JsError("AxiosError", <<"timeout of 10000ms exceeded">>))}
ApiAnswers == {"pdf", "empty", "no FileData", "no Files", "error", "timeout"}
Templates == {Undefined, [buffer |-> TemplateBuffer]}

NodeEnvs == {Undefined, Str(<<"production">>), Str(<<"development">>), Str(<<"staging">>)}
Converters ==
  {[loaded |-> FALSE, isConfigured |-> FALSE], [loaded |-> TRUE, isConfigured |-> FALSE],
   [loaded |-> TRUE, isConfigured |-> TRUE]}

NoGenRequest ==
  [via |-> "none", body |-> GenBody(Undefined, Undefined, Undefined, Undefined),
   template |-> Undefined, download |-> Ret(TemplateBuffer), render |-> Ret(DocxBuffer),
   api |-> "pdf"]

NoGenResponse == GenResponse(0, <<>>, Undefined, FALSE)

GenInit ==
  /\ nodeEnv \in NodeEnvs
  /\ pdfConverter \in Converters
  /\ greq = NoGenRequest
  /\ gres = NoGenResponse
  /\ nGen = 0

GenIdle ==
  /\ nodeEnv = Undefined
  /\ pdfConverter = [loaded |-> FALSE, isConfigured |-> FALSE]
  /\ greq = NoGenRequest
  /\ gres = NoGenResponse
  /\ nGen = 0

\* What a request of the newer server gets to: the lookup, the download,
\* the render, the conversion.
ReachesLookup(body) ==
  Truthy(body.data) /\ Truthy(body.templateId) /\ ~Truthy(body.templateUrl)
ReachesDownload(body) ==
  /\ Truthy(body.data) /\ Truthy(body.templateUrl) /\ ~Truthy(body.templateId)
  /\ isValidTemplateUrl(body.templateUrl.s)
ReachesRender(body, template, download) ==
  \/ ReachesLookup(body) /\ template # Undefined
  \/ ReachesDownload(body) /\ ~download.threw
ReachesApi(body, template, download, render) ==
  /\ ReachesRender(body, template, download) /\ ~render.threw
  /\ body.outputFormat \in {Str(<<"pdf">>), Str(<<"both">>)}
  /\ pdfConverter.loaded /\ pdfConverter.isConfigured

\* What a request can meet: what the handler does not get to is left at
\* its default.
TemplatesMet(body) ==
  IF ReachesLookup(body) THEN Templates ELSE {NoGenRequest.template}
DownloadsMet(body) ==
  IF ReachesDownload(body) THEN Downloads ELSE {NoGenRequest.download}
RendersMet(body, template, download) ==
  IF ReachesRender(body, template, download) THEN Renders ELSE {NoGenRequest.render}
ApisMet(body, template, download, render) ==
  IF ReachesApi(body, template, download, render) THEN ApiAnswers ELSE {NoGenRequest.api}

\* POST /api/documents/generate of server.js.
Generate(body, template, download, render, api) ==
  /\ nGen < MaxGen
  /\ nGen' = nGen + 1
  /\ greq' = [via |-> "server", body |-> body, template |-> template,
              download |-> download, render |-> render, api |-> api]
  /\ gres' = generate(body, GenTenant, template, download, render, api, nodeEnv,
                      pdfConverter)
  /\ UNCHANGED <<nodeEnv, pdfConverter, outsideGen>>

\* POST /api/documents/generate of the earlier server.
GenerateLegacy(body, download, render) ==
  /\ nGen < MaxGen
  /\ nGen' = nGen + 1
  /\ greq' = [via |-> "legacy", body |-> body, template |-> Undefined,
              download |-> download, render |-> render, api |-> NoGenRequest.api]
  /\ gres' = generateLegacy(body, download, render)
  /\ UNCHANGED <<nodeEnv, pdfConverter, outsideGen>>

\* POST /api/documents/generate of the server with per-tenant API keys.
GenerateSecured(body, download, render) ==
  /\ nGen < MaxGen
  /\ nGen' = nGen + 1
  /\ greq' = [via |-> "secured", body |-> body, template |-> Undefined,
              download |-> download, render |-> render, api |-> NoGenRequest.api]
  /\ gres' = generateSecured(body, GenTenant, download, render, nodeEnv)
  /\ UNCHANGED <<nodeEnv, pdfConverter, outsideGen>>

\* A call of DocumentGenerator.generate; what it threw or returned is kept
\* in the shape of a response with status 0.
RunGenerate(data, render) ==
  LET out == DocumentGeneratorGenerate(data.props, [d |-> 2, m |-> 11, y |-> 2026,
                                                     h |-> 9, mi |-> 30], render)
  IN /\ nGen < MaxGen
     /\ nGen' = nGen + 1
     /\ greq' = [via |-> "generator",
                 body |-> GenBody(Undefined, Undefined, data, Undefined),
                 template |-> Undefined, download |-> NoGenRequest.download,
                 render |-> render, api |-> NoGenRequest.api]
     /\ gres' = IF out.threw THEN GenResponse(0, out.e.message, Undefined, FALSE)
                ELSE [NoGenResponse EXCEPT !.success = Bool(TRUE)]
     /\ UNCHANGED <<nodeEnv, pdfConverter, outsideGen>>

\* An upload whose handler threw.
UploadFails(error) ==
  /\ nGen < MaxGen
  /\ nGen' = nGen + 1
  /\ greq' = [NoGenRequest EXCEPT !.via = "upload"]
  /\ gres' = UploadCatch(error)
  /\ UNCHANGED <<nodeEnv, pdfConverter, outsideGen>>

\* The bodies sent to the earlier server, and what its requests can meet.
LegacyBodies == {b \in GenBodies : b.templateId = Undefined /\ b.outputFormat = Undefined}
LegacyDownloadsMet(body) ==
  IF Truthy(body.templateUrl) /\ Truthy(body.data) THEN Downloads
  ELSE {NoGenRequest.download}
LegacyRendersMet(body, download) ==
  IF Truthy(body.templateUrl) /\ Truthy(body.data) /\ ~download.threw THEN Renders
  ELSE {NoGenRequest.render}

SecuredDownloadsMet(body) ==
  IF Truthy(body.templateUrl) /\ Truthy(body.data) /\ isValidTemplateUrl(body.templateUrl.s)
  THEN Downloads
  ELSE {NoGenRequest.download}

SecuredRendersMet(body, download) ==
  IF /\ Truthy(body.templateUrl) /\ Truthy(body.data)
     /\ isValidTemplateUrl(body.templateUrl.s) /\ ~download.threw
  THEN Renders
  ELSE {NoGenRequest.render}

GenNext ==
  \/ \E body \in GenBodies :
       \E template \in TemplatesMet(body), download \in DownloadsMet(body) :
         \E render \in RendersMet(body, template, download) :
           \E api \in ApisMet(body, template, download, render) :
             Generate(body, template, download, render, api)
  \/ \E body \in LegacyBodies :
       \E download \in LegacyDownloadsMet(body) :
         \E render \in LegacyRendersMet(body, download) :
           GenerateLegacy(body, download, render)
  \/ \E body \in LegacyBodies :
       \E download \in SecuredDownloadsMet(body) :
         \E render \in SecuredRendersMet(body, download) :
           GenerateSecured(body, download, render)
  \/ \E data \in {GenData, Rec(<<[k |-> <<"cpf">>, v |-> Num(100)]>>)}, render \in Renders :
       RunGenerate(data, render)
  \/ \E error \in {JsError("TypeError",
                           <<"Cannot read properties of undefined (reading 'includes')">>)} :
       UploadFails(error)

\* The request under way got a document rendered.
Rendered ==
  /\ greq.via = "server"
  /\ ReachesRender(greq.body, greq.template, greq.download)
  /\ ~greq.render.threw

\* The conversion gave no PDF: the module is missing or not configured, or
\* ConvertAPI refused, timed out or answered without a file.
PdfUnavailable ==
  \/ ~pdfConverter.loaded
  \/ ~pdfConverter.isConfigured
  \/ greq.api \in {"error", "timeout", "no Files", "no FileData"}

\* C11. A generate request that asks for PDF ('pdf' or 'both') while the
\* conversion is unavailable, fails or times out still succeeds: the
\* response carries the DOCX and a warning that the PDF is missing.
C11_DocxWithWarning ==
  (Rendered /\ greq.body.outputFormat \in {Str(<<"pdf">>), Str(<<"both">>)}
     /\ PdfUnavailable) =>
    /\ gres.status = 200
    /\ gres.success = Bool(TRUE)
    /\ gres.base64 # Undefined \/ gres.formats.docx # Undefined
    /\ gres.warning # Undefined

\* The host new URL() reads in a URL, <<>> when it reads none.
HostOf(url) == IF NewURL(url).threw THEN <<>> ELSE NewURL(url).v.hostname

\* The four bytes of a host that is a dotted quad, <<>> for any other host.
Octets(host) ==
  LET labels == Split(host, ".")
  IN IF Len(labels) = 4 /\ \A i \in 1..4 : IsNumeric(labels[i])
     THEN [i \in 1..4 |-> LeadingInt(labels[i], 0)]
     ELSE <<>>

\* localhost, 127.0.0.0/8, ::1
IsLoopback(host) ==
  \/ host = <<"localhost">>
  \/ host = <<"[", ":", ":", "1", "]">>
  \/ Octets(host) # <<>> /\ Octets(host)[1] = 127

\* 10.0.0.0/8, 172.16.0.0/12, 192.168.0.0/16
IsPrivate(host) ==
  /\ Octets(host) # <<>>
  /\ \/ Octets(host)[1] = 10
     \/ Octets(host)[1] = 172 /\ Octets(host)[2] \in 16..31
     \/ Octets(host)[1] = 192 /\ Octets(host)[2] = 168

\* C12. isValidTemplateUrl lets a URL through (the handler goes on to
\* download it) only when its scheme is https and its host is neither a
\* loopback address (localhost, 127.0.0.0/8, ::1) nor a private one
\* (10.0.0.0/8, 172.16.0.0/12, 192.168.0.0/16); every other URL, and text
\* that is no URL, is refused.
C12_OnlyPublicHttps ==
  (greq.via = "server" /\ gres.fetched) =>
    LET url == greq.body.templateUrl.s
    IN /\ ~NewURL(url).threw
       /\ NewURL(url).v.protocol = <<"https", ":">>
       /\ ~IsLoopback(HostOf(url))
       /\ ~IsPrivate(HostOf(url))

\* The text names the tag.
Names(v, tag) == IsString(v) /\ Includes(v.s, tag)

\* C15. When the render fails because several placeholders could not be
\* resolved, the error the generate operation reports names every one of
\* the failing tags, not only the first.
C15_EveryTagNamed ==
  (/\ greq.via \in {"server", "generator"}
   /\ gres.status \in {0, 500}
   /\ greq.render.threw
   /\ greq.render.e.hasErrors
   /\ Len(greq.render.e.errors) > 1
   /\ \A i \in 1..Len(greq.render.e.errors) : greq.render.e.errors[i].type = "tag_not_found") =>
    \A i \in 1..Len(greq.render.e.errors) :
      \/ Names(gres.error, greq.render.e.errors[i].tag)
      \/ Names(gres.details, greq.render.e.errors[i].tag)

\* The text carries stack frames.
HasStack(v) == IsString(v) /\ Includes(v.s, "    at ")

\* C17. When NODE_ENV is 'production', the error response of a failed
\* generate or upload carries no stack: a failed generate of server.js
\* carries the fixed message 'Falha ao gerar documento' and no details.
C17_NoStackInProduction ==
  (gres.status = 500 /\ nodeEnv = Str(<<"production">>)) =>
    /\ ~HasStack(gres.error)
    /\ ~HasStack(gres.details)
    /\ greq.via = "server" =>
         (gres.error = Str(<<"Falha ao gerar documento">>) /\ gres.details = Undefined)

\* A generate of server.js failed in production, in the render or in the
\* download.
C17_Witness ==
  /\ nodeEnv = Str(<<"production">>)
  /\ greq.via = "server"
  /\ gres.status = 500
  /\ greq.render.threw \/ greq.download.threw

\* C17 as first stated: in every deployment that is not a development one,
\* the error response of a failed generate or upload carries no stack and
\* no internal detail, only the kind or the message of the error.
C17_Original ==
  (gres.status = 500 /\ nodeEnv # Str(<<"development">>)) =>
    /\ ~HasStack(gres.error)
    /\ ~HasStack(gres.details)

\* C21. In every server variant that takes a templateUrl, the download of
\* the URL is started only after isValidTemplateUrl has accepted that URL; a
\* request whose URL is refused ends with 400 and downloads nothing.
C21_ValidatedBeforeFetch ==
  greq.via \in {"server", "secured", "legacy"} =>
    /\ gres.fetched =>
         (Truthy(greq.body.templateUrl) /\ isValidTemplateUrl(greq.body.templateUrl.s))
    /\ (Truthy(greq.body.templateUrl) /\ ~isValidTemplateUrl(greq.body.templateUrl.s)) =>
         (gres.status = 400 /\ ~gres.fetched)

\* C30. Every successful response of generate carries at least one
\* document, whatever outputFormat is (unrecognised values included): the
\* DOCX whenever outputFormat is 'docx' or 'both' or no PDF is delivered,
\* and a PDF only when outputFormat is 'pdf' or 'both' and the conversion
\* returned one.
C30_AlwaysAPayload ==
  (greq.via \in {"server", "secured", "legacy"} /\ gres.status = 200) =>
    LET outputFormat == IF greq.body.outputFormat = Undefined THEN Str(<<"docx">>)
                        ELSE greq.body.outputFormat
        wantsPdf == outputFormat \in {Str(<<"pdf">>), Str(<<"both">>)}
        docx == gres.base64 # Undefined \/ gres.formats.docx # Undefined
        pdf == gres.formats.pdf # Undefined
    IN /\ docx \/ pdf
       /\ (outputFormat \in {Str(<<"docx">>), Str(<<"both">>)} \/ ~pdf) => docx
       /\ pdf => /\ wantsPdf
                 /\ Truthy(convertToPDF(pdfConverter, greq.render.v, greq.api))
                 /\ gres.formats.pdf = ToBase64(convertToPDF(pdfConverter, greq.render.v, greq.api))

\* A generate with an outputFormat the handler does not know succeeded and
\* delivered the DOCX.
C30_Witness_UnknownFormat ==
  /\ greq.via = "server" /\ gres.status = 200
  /\ greq.body.outputFormat = Str(<<"txt">>)
  /\ gres.formats.docx # Undefined

(***************************************************************************)
(* security.js: sanitizeData and auditLog.  A body is an object, kept as   *)
(* the sequence of its [k, v] properties; body.data is an object of the    *)
(* same kind, shared between req.body and its shallow copy.                *)
(***************************************************************************)
SensitiveFields == <<<<"cpf">>, <<"cnpj">>, <<"rg">>, <<"senha">>, <<"password">>, <<"token">>>>

Redacted == Str(<<"***REDACTED***">>)

\* sanitized.data && sanitized.data[field], for the values a JSON body holds:
\* only an object has a property of that name
DataHolds(props, field) ==
  /\ ObjGet(props, <<"data">>).t = "record"
  /\ Truthy(ObjGet(ObjGet(props, <<"data">>).props, field))

\* A variant of the round that forgets the nested object.
RedactField_TopLevelOnly(props, field) ==
  IF Truthy(ObjGet(props, field)) THEN ObjSet(props, field, Redacted) ELSE props

\* One round of the loop over sensitiveFields.
RedactField(props, field) ==
  LET top == IF Truthy(ObjGet(props, field)) THEN ObjSet(props, field, Redacted) ELSE props
  IN IF DataHolds(top, field)
     THEN ObjSet(top, <<"data">>,
                 Rec(ObjSet(ObjGet(top, <<"data">>).props, field, Redacted)))
     ELSE top

RECURSIVE RedactFields(_, _)
\* The loop over sensitiveFields from field number i on.
RedactFields(props, i) ==
  IF i > Len(SensitiveFields) THEN props
  ELSE RedactFields(RedactField(props, SensitiveFields[i]), i + 1)

\* sanitizeData(req): with a body, req.sanitizedBody is the shallow copy
\* with the fields redacted; the data object is the one of req.body, which
\* therefore is redacted too.
sanitizeData(req) ==
  IF ~Truthy(req.body) THEN req
  ELSE LET sanitized == RedactFields(req.body.props, 1)
       IN [req EXCEPT
             !.sanitizedBody = Rec(sanitized),
             !.body = IF ObjGet(req.body.props, <<"data">>).t = "record"
                      THEN Rec(ObjSet(req.body.props, <<"data">>,
                                      ObjGet(sanitized, <<"data">>)))
                      ELSE req.body]

RECURSIVE JsonProps(_)
\* JSON.stringify of an object: a property whose value is undefined is
\* left out, an object value is written the same way.
JsonProps(props) ==
  IF props = <<>> THEN <<>>
  ELSE LET p == Head(props)
       IN IF p.v = Undefined THEN JsonProps(Tail(props))
          ELSE IF p.v.t = "record"
            THEN <<[k |-> p.k, v |-> Rec(JsonProps(p.v.props))]>> \o JsonProps(Tail(props))
          ELSE <<p>> \o JsonProps(Tail(props))

\* auditLog(req): the entry written to the console and appended to the
\* tenant's log file (its timestamp and address are left out).
auditLogEntry(req) ==
  JsonProps(<<[k |-> <<"tenantId">>, v |-> req.tenantId],
              [k |-> <<"method">>, v |-> Str(<<"POST">>)],
              [k |-> <<"path">>, v |-> Str(<<"/", "api", "/", "documents", "/", "generate">>)],
              [k |-> <<"userAgent">>, v |-> Undefined],
              [k |-> <<"body">>,
               v |-> IF Truthy(req.sanitizedBody) THEN req.sanitizedBody ELSE Rec(<<>>)]>>)

(***************************************************************************)
(* Specification of the audit trail: a request arrives, passes             *)
(* sanitizeData (or not, when the route does not mount it) and auditLog.   *)
(***************************************************************************)
LogKeys == {<<"cpf">>, <<"senha">>, <<"token">>, <<"nome">>}
LogValues == {Str(<<"123">>), Str(<<>>), Num(0), Null, Bool(FALSE)}

\* The objects the bodies are built from: one or two properties.
LogObjects ==
  {<<>>} \cup {<<[k |-> k, v |-> v]>> : k \in LogKeys, v \in LogValues}
    \cup {<<[k |-> <<"cpf">>, v |-> v], [k |-> <<"nome">>, v |-> w]>> :
            v \in LogValues, w \in {Str(<<"Ana">>)}}

LogBodies ==
  {Undefined}
    \cup {Rec(o) : o \in LogObjects}
    \cup {Rec(<<[k |-> <<"data">>, v |-> Rec(o)]>>) : o \in LogObjects}
    \cup {Rec(<<[k |-> k, v |-> v], [k |-> <<"data">>, v |-> Rec(o)]>>) :
            k \in {<<"cpf">>, <<"token">>}, v \in {Str(<<"123">>), Num(0)}, o \in LogObjects}
    \cup {Rec(<<[k |-> <<"data">>, v |-> v]>>) : v \in {Str(<<"cpf">>), Null}}

NoLogRequest ==
  [stage |-> "none", tenantId |-> Str(<<>>), body |-> Undefined, sanitizedBody |-> Undefined,
   sent |-> Undefined]

NoEntry == <<>>

LogInit ==
  /\ sreq = NoLogRequest
  /\ logged = NoEntry

LogIdle ==
  /\ sreq = NoLogRequest
  /\ logged = NoEntry

\* A request of an authenticated tenant arrives with its parsed body.
Receive(body) ==
  /\ sreq.stage \in {"none", "logged"}
  /\ sreq' = [stage |-> "received", tenantId |-> Str(<<"acme">>), body |-> body,
              sanitizedBody |-> Undefined, sent |-> body]
  /\ UNCHANGED <<logged, outsideLog>>

SanitizeData ==
  /\ sreq.stage = "received"
  /\ sreq' = [sanitizeData(sreq) EXCEPT !.stage = "sanitized"]
  /\ UNCHANGED <<logged, outsideLog>>

AuditLog ==
  /\ sreq.stage \in {"received", "sanitized"}
  /\ logged' = auditLogEntry(sreq)
  /\ sreq' = [sreq EXCEPT !.stage = "logged"]
  /\ UNCHANGED outsideLog

LogNext ==
  \/ \E body \in LogBodies : Receive(body)
  \/ SanitizeData
  \/ AuditLog

\* What the entry shows of the body, and of body.data.
LoggedBody == ObjGet(logged, <<"body">>).props
LoggedData ==
  IF ObjGet(LoggedBody, <<"data">>).t = "record" THEN ObjGet(LoggedBody, <<"data">>).props
  ELSE <<>>

\* C13. Every audit entry shows '***REDACTED***' in place of each
\* denylisted field (cpf, cnpj, rg, senha, password, token) whose value in
\* the body, or in body.data, is truthy; a denylisted field whose value is
\* falsy ('', 0, false, null) is shown as it came.
C13_TruthyFieldsRedacted ==
  logged # NoEntry =>
    \A i \in 1..Len(SensitiveFields) :
      LET field == SensitiveFields[i]
      IN /\ ObjHas(LoggedBody, field) =>
              (ObjGet(LoggedBody, field) = Redacted \/ ~Truthy(ObjGet(LoggedBody, field)))
         /\ ObjHas(LoggedData, field) =>
              (ObjGet(LoggedData, field) = Redacted \/ ~Truthy(ObjGet(LoggedData, field)))

\* An entry was written for a body that came with a cpf at the top level
\* and a cpf in data, both truthy, and shows both redacted.
C13_Witness ==
  /\ sreq.stage = "logged"
  /\ sreq.sent.t = "record"
  /\ Truthy(ObjGet(sreq.sent.props, <<"cpf">>))
  /\ DataHolds(sreq.sent.props, <<"cpf">>)
  /\ ObjGet(LoggedBody, <<"cpf">>) = Redacted
  /\ ObjGet(LoggedData, <<"cpf">>) = Redacted

\* C13 as first stated: every audit entry shows '***REDACTED***' in place
\* of the value of each denylisted field that occurs at the top level of
\* the body or inside body.data, and never the original value.
C13_Original ==
  logged # NoEntry =>
    \A i \in 1..Len(SensitiveFields) :
      /\ ObjHas(LoggedBody, SensitiveFields[i]) =>
           ObjGet(LoggedBody, SensitiveFields[i]) = Redacted
      /\ ObjHas(LoggedData, SensitiveFields[i]) =>
           ObjGet(LoggedData, SensitiveFields[i]) = Redacted

\* C28. sanitizeData leaves the request body unchanged: after it ran,
\* req.body and every object reachable from it, req.body.data among them,
\* hold the values the caller sent, so that document generation gets the
\* caller's data; only req.sanitizedBody is written.
C28_BodyUnchanged ==
  sreq.stage \in {"sanitized", "logged"} => sreq.body = sreq.sent

(***************************************************************************)
(* security.js: rateLimiter.  global.rateLimits maps a tenant to its       *)
(* counter and the instant its window ends.  The handler reads Date.now()  *)
(* more than once; between the window test and the computation of          *)
(* retryAfter the clock may have moved on by `drift`.                      *)
(***************************************************************************)
LimiterCeiling == 30
LimiterWindowMs == 60000

\* Math.ceil(ms / 1000)
CeilSeconds(ms) == -((-ms) \div 1000)

\* rateLimiter(req, res, next) for req.tenantId at instant t: the limits
\* after the call and the response (next when the request goes on).
rateLimiter(limits, tenantId, t, drift) ==
  LET created == IF tenantId \in DOMAIN limits THEN limits
                 ELSE [k \in DOMAIN limits \cup {tenantId} |->
                         IF k = tenantId THEN [count |-> 0, resetTime |-> t + LimiterWindowMs]
                         ELSE limits[k]]
      limit == IF t > created[tenantId].resetTime
               THEN [count |-> 0, resetTime |-> t + LimiterWindowMs]
               ELSE created[tenantId]
  IN IF limit.count >= LimiterCeiling
     THEN [limits |-> [created EXCEPT ![tenantId] = limit],
           status |-> 429, error |-> "Rate limit exceeded",
           retryAfter |-> Num(CeilSeconds(limit.resetTime - (t + drift))),
           next |-> FALSE]
     ELSE [limits |-> [created EXCEPT ![tenantId] = [limit EXCEPT !.count = limit.count + 1]],
           status |-> 0, error |-> "", retryAfter |-> Undefined, next |-> TRUE]

(***************************************************************************)
(* Specification of rateLimiter: requests of two tenants and a clock that  *)
(* steps to the instants where a window ends.                              *)
(***************************************************************************)
LimiterStartMs == 630000
LimiterTenants == {<<"acme">>, <<"beta">>}

NoLimiterResponse ==
  [tenantId |-> <<>>, at |-> 0, status |-> 0, error |-> "", retryAfter |-> Undefined,
   next |-> FALSE, resetTime |-> 0]

LimiterInit ==
  /\ lnow = LimiterStartMs
  /\ rateLimits = << >>
  /\ lres = NoLimiterResponse
  /\ nLimited = 0
  /\ nLimiterTicks = 0
  /\ reached = << >>

LimiterIdle ==
  /\ lnow = LimiterStartMs
  /\ rateLimits = << >>
  /\ lres = NoLimiterResponse
  /\ nLimited = 0
  /\ nLimiterTicks = 0
  /\ reached = << >>

\* What one call of rateLimiter does to the limits, the clock and the
\* record of the request handled last.
RateLimiterStep(tenantId, drift) ==
  /\ LET r == rateLimiter(rateLimits, tenantId, lnow, drift)
     IN /\ rateLimits' = r.limits
        /\ lres' = [tenantId |-> tenantId, at |-> lnow + drift, status |-> r.status,
                    error |-> r.error, retryAfter |-> r.retryAfter, next |-> r.next,
                    resetTime |-> r.limits[tenantId].resetTime]
        /\ lnow' = IF r.status = 429 THEN lnow + drift ELSE lnow
  /\ LET fresh == tenantId \notin DOMAIN rateLimits \/ lnow > rateLimits[tenantId].resetTime
     IN reached' = [k \in DOMAIN reached \cup {tenantId} |->
                      IF k # tenantId THEN reached[k]
                      ELSE IF fresh THEN 1 ELSE reached[k] + 1]
  /\ nLimited' = nLimited + 1

\* A request of the tenant passes rateLimiter.  A second tenant sends at
\* most one request, so that one counter can reach the ceiling.
RateLimiter(tenantId, drift) ==
  /\ nLimited < MaxLimiterReq
  /\ tenantId = <<"acme">> \/ tenantId \notin DOMAIN rateLimits
  /\ RateLimiterStep(tenantId, drift)
  /\ UNCHANGED <<nLimiterTicks, outsideLimiter>>

\* The instants the clock steps to: the next millisecond, and around the
\* end of each window.
LimiterInstants ==
  {t \in {lnow + 1}
         \cup UNION {{rateLimits[k].resetTime - 1000, rateLimits[k].resetTime - 1,
                      rateLimits[k].resetTime, rateLimits[k].resetTime + 1} :
                     k \in DOMAIN rateLimits} : t > lnow}

LimiterTickTo(t) ==
  /\ nLimiterTicks < MaxLimiterTicks
  /\ t \in LimiterInstants
  /\ lnow' = t
  /\ nLimiterTicks' = nLimiterTicks + 1
  /\ UNCHANGED <<rateLimits, lres, nLimited, reached, outsideLimiter>>

LimiterNext ==
  \/ \E tenantId \in LimiterTenants, drift \in 0..MaxDriftMs : RateLimiter(tenantId, drift)
  \/ \E t \in LimiterInstants : LimiterTickTo(t)

\* C16. Every rate-limit rejection reports a retry-after value: the
\* number of seconds that remain of the tenant's current window, between 1
\* and 60.
C16_RetryAfter ==
  lres.status = 429 =>
    /\ lres.retryAfter.t = "number"
    /\ lres.retryAfter.n = CeilSeconds(lres.resetTime - lres.at)
    /\ lres.retryAfter.n \in 1..60

(***************************************************************************)
(* The rate-limit sweep of server.js seen on its own: a few requests of    *)
(* tenants whose identifiers do and do not hold a '-', and the clock.      *)
(***************************************************************************)
MaxSweepReq == 2     \* most requests in one run of the sweep specification

SweepTenants == RateTenants \cup {<<"acme", "-", "corp">>}

SweepNext ==
  \/ \E t \in SweepTenants : nReq < MaxSweepReq /\ Authenticate(ApiKeyRequest(t))
  \/ \E t \in RateInstants : TickTo(t)

\* The timer has just fired: the clock stands at the time of its last
\* firing and no request has come since.
JustSwept == nTick > 0 /\ now = nextSweep - SweepIntervalMs /\ aresp = NoResponse

\* C22. After every run of the rate-limit sweep the counter map holds no
\* entry of a window more than 5 minutes before the current minute, whatever
\* the tenant identifier ('-' in it included), and the entries of the
\* current window are still there.
C22_SweepPurgesOnlyStale ==
  JustSwept =>
    /\ \A t \in SweepTenants : \A m \in 0..(now \div WindowMs) :
         (now \div WindowMs) - m > SweepAgeMinutes =>
           RateKey(t, m) \notin DOMAIN requestCounts
    /\ \A t \in DOMAIN inWindow :
         RateKey(t, now \div WindowMs) \in DOMAIN requestCounts

\* The count stored for a tenant and a window minute, 0 when there is none.
CountOf(counts, tenantId, minute) ==
  IF RateKey(tenantId, minute) \in DOMAIN counts THEN counts[RateKey(tenantId, minute)]
  ELSE 0

\* A step inside one window of authenticate leaves no count lower.
RateCountGrows ==
  (now' \div WindowMs = now \div WindowMs) =>
    \A t \in RateTenants :
      CountOf(requestCounts', t, now \div WindowMs)
        >= CountOf(requestCounts, t, now \div WindowMs)

\* A request of a tenant whose count is over the ceiling is refused.
RateCeilingHolds ==
  \A t \in RateTenants :
    (/\ CountOf(requestCounts, t, now \div WindowMs) > RateCeiling
     /\ nReq' = nReq + 1
     /\ Claimant(aresp'.req) = Str(t)
     /\ aresp'.status # 401) =>
      (aresp'.status = 429 /\ ~aresp'.next)

\* A step before the end of a tenant's window of rateLimiter leaves its
\* count no lower.
LimiterCountGrows ==
  \A t \in DOMAIN rateLimits :
    lnow' <= rateLimits[t].resetTime =>
      /\ t \in DOMAIN rateLimits'
      /\ rateLimits'[t].count >= rateLimits[t].count

\* C23. Within one rate window the stored count of a tenant never goes
\* down, whatever requests (admitted or refused) and sweeps come, and once it
\* is over the ceiling of 30 every further request of the tenant in that
\* window is refused.
C23_CountNeverDecreases ==
  [][RateCountGrows /\ RateCeilingHolds /\ LimiterCountGrows]_vars

\* C24. No increment of a rate counter is lost: whatever the order in
\* which request handlers and the sweep run, the count stored for a tenant's
\* current window is the number of the tenant's requests that got to the rate
\* check in that window.  (A handler runs to its first await before anything
\* else does, and authenticate and rateLimiter await nothing: each is one
\* step here, and a handler suspended later holds no copy of a count.)
C24_NoLostIncrement ==
  /\ \A t \in DOMAIN inWindow :
       CountOf(requestCounts, t, now \div WindowMs) = inWindow[t]
  /\ \A t \in DOMAIN rateLimits :
       lnow <= rateLimits[t].resetTime => rateLimits[t].count = reached[t]

(***************************************************************************)
(* The middleware chain.  Express runs a stage when the stage before it    *)
(* called next, and a whole chain before it turns to another request: the  *)
(* stages await nothing.  The stages of security.js are mounted nowhere in *)
(* the sources, so they run here in any order, each at most once for a     *)
(* request; server.js mounts authenticate in front of its route handlers.  *)
(***************************************************************************)
\* An auditLog that awaits its append and answers 500 when it fails.
auditLog_AwaitsAppend(req, append) ==
  [entry |-> auditLogEntry(req),
   logPath |-> IF Truthy(req.tenantPaths) THEN req.tenantPaths.logs ELSE <<"logs">>,
   status |-> IF append = "error" THEN 500 ELSE 0, next |-> append # "error"]

\* auditLog(req, res, next): the entry is printed, its append to the
\* tenant's log file is started and next is called.  The append ends later
\* (`append` is how), and a failure of it is only printed.
auditLog(req, append) ==
  [entry |-> auditLogEntry(req),
   logPath |-> IF Truthy(req.tenantPaths) THEN req.tenantPaths.logs ELSE <<"logs">>,
   status |-> 0, next |-> TRUE]

\* global.rateLimits[req.tenantId]: the property name of a tenantId
TenantKey(tenantId) == IF IsString(tenantId) THEN tenantId.s ELSE <<"undefined">>

\* What a stage did: the status of the response it sent (0 for none), the
\* number of responses sent and of calls of next.
Did(stage, status, next) ==
  [stage |-> stage, status |-> status, sent |-> IF status # 0 THEN 1 ELSE 0,
   nexts |-> IF next THEN 1 ELSE 0]

NoAppend == [state |-> "none", outcome |-> "none"]

ChainRequest(app, arrived, headers, auth, body) ==
  [app |-> app, arrived |-> arrived, headers |-> headers, auth |-> auth, tenantId |-> Undefined,
   tenantPaths |-> Undefined, body |-> body, sanitizedBody |-> Undefined,
   append |-> NoAppend]

ChainApps == {"security", "server"}

ChainInit ==
  /\ creq \in {ChainRequest(app, FALSE, NoHeaders, NoRequest, Undefined) : app \in ChainApps}
  /\ cdone = <<>>

ChainIdle ==
  /\ creq = ChainRequest("none", FALSE, NoHeaders, NoRequest, Undefined)
  /\ cdone = <<>>

\* A request is in the chain and the stage run last on it called next.
ChainOpen == creq.arrived /\ (IF cdone = <<>> THEN TRUE ELSE cdone[Len(cdone)].nexts > 0)

Ran(stage) == \E i \in 1..Len(cdone) : cdone[i].stage = stage

\* A request enters the chain of the application; what was kept of the
\* request before it is dropped.
Arrive(headers, auth, body) ==
  /\ creq' = ChainRequest(creq.app, TRUE, headers, auth, body)
  /\ cdone' = <<>>
  /\ aresp' = NoResponse
  /\ lres' = NoLimiterResponse
  /\ logged' = NoEntry
  /\ UNCHANGED <<now, nextSweep, requestCounts, tokens, inWindow, nReq, nTick, lnow,
                 rateLimits, nLimited, nLimiterTicks, reached, sreq, dataVars, cryptoVars,
                 mwVars, tplVars, genVars, twinVars, cacheVars>>

ChainValidateApiKey ==
  /\ creq.app = "security" /\ ChainOpen /\ ~Ran("validateApiKey")
  /\ LET r == validateApiKey(creq.headers, lnow)
     IN /\ creq' = IF r.next THEN [creq EXCEPT !.tenantId = r.tenantId] ELSE creq
        /\ cdone' = Append(cdone, Did("validateApiKey", r.status, r.next))
  /\ UNCHANGED outsideChain

ChainIsolateTenantPaths ==
  /\ creq.app = "security" /\ ChainOpen /\ ~Ran("isolateTenantPaths")
  /\ LET r == isolateTenantPaths(creq.tenantId)
     IN /\ creq' = [creq EXCEPT !.tenantPaths = r.tenantPaths]
        /\ cdone' = Append(cdone, Did("isolateTenantPaths", r.status, r.next))
  /\ UNCHANGED outsideChain

\* sanitizeData sends nothing and ends with next().
ChainSanitizeData ==
  /\ creq.app = "security" /\ ChainOpen /\ ~Ran("sanitizeData")
  /\ creq' = sanitizeData(creq)
  /\ cdone' = Append(cdone, Did("sanitizeData", 0, TRUE))
  /\ UNCHANGED outsideChain

ChainRateLimiter(drift) ==
  /\ creq.app = "security" /\ ChainOpen /\ ~Ran("rateLimiter")
  /\ nLimited < MaxLimiterReq
  /\ TenantKey(creq.tenantId) = <<"base44">> \/ TenantKey(creq.tenantId) \notin DOMAIN rateLimits
  /\ RateLimiterStep(TenantKey(creq.tenantId), drift)
  /\ cdone' = Append(cdone, Did("rateLimiter", lres'.status, lres'.next))
  /\ UNCHANGED <<creq, nLimiterTicks, dataVars, cryptoVars, authVars, mwVars,
                 tplVars, genVars, logVars, twinVars, cacheVars>>

ChainAuditLog(append) ==
  /\ creq.app = "security" /\ ChainOpen /\ ~Ran("auditLog")
  /\ LET r == auditLog(creq, append)
     IN /\ logged' = r.entry
        /\ cdone' = Append(cdone, Did("auditLog", r.status, r.next))
  /\ creq' = [creq EXCEPT !.append = [state |-> "pending", outcome |-> append]]
  /\ UNCHANGED <<sreq, dataVars, cryptoVars, authVars, mwVars, tplVars, genVars,
                 limiterVars, twinVars, cacheVars>>

\* The append auditLog started ends; .catch prints its error.
AppendSettles ==
  /\ creq.append.state = "pending"
  /\ creq' = [creq EXCEPT !.append.state = "settled"]
  /\ UNCHANGED <<cdone, outsideChain>>

ChainAuthenticate ==
  /\ creq.app = "server" /\ creq.arrived /\ cdone = <<>>
  /\ nReq < MaxReq
  /\ AuthenticateStep(creq.auth)
  /\ cdone' = Append(cdone, Did("authenticate", aresp'.status, aresp'.next))
  /\ creq' = [creq EXCEPT !.tenantId = aresp'.tenantId]
  /\ UNCHANGED <<now, nextSweep, tokens, nTick, dataVars, cryptoVars, mwVars,
                 tplVars, genVars, logVars, limiterVars, twinVars, cacheVars>>

\* The route handler at the end of the chain answers the request.
ChainHandler ==
  /\ cdone # <<>> /\ ChainOpen /\ ~Ran("handler")
  /\ cdone' = Append(cdone, Did("handler", 200, FALSE))
  /\ UNCHANGED <<creq, outsideChain>>

ChainKey(secret) ==
  Str(Base64Encode(<<"base44", ":", secret, ":">> \o ToDigits(LimiterStartMs)))

ChainHeaders ==
  {NoHeaders,
   [xApiKey |-> ChainKey("senha123"), authorization |-> Undefined],
   [xApiKey |-> ChainKey("wrong"), authorization |-> Undefined],
   [xApiKey |-> Undefined, authorization |-> Str(<<"Bearer", " ">> \o ChainKey("senha123").s)]}

ChainBodies ==
  {Undefined,
   Rec(<<[k |-> <<"cpf">>, v |-> Str(<<"123">>)],
         [k |-> <<"data">>, v |-> Rec(<<[k |-> <<"cpf">>, v |-> Str(<<"123">>)]>>)]>>)}

ChainAuths ==
  {NoRequest, BearerRequest(ForgedToken)} \cup {ApiKeyRequest(t) : t \in RateTenants}

ChainNext ==
  \/ \E headers \in ChainHeaders, body \in ChainBodies :
       creq.app = "security" /\ Arrive(headers, NoRequest, body)
  \/ \E auth \in ChainAuths : creq.app = "server" /\ Arrive(NoHeaders, auth, Undefined)
  \/ ChainValidateApiKey
  \/ ChainIsolateTenantPaths
  \/ ChainSanitizeData
  \/ \E drift \in 0..MaxDriftMs : ChainRateLimiter(drift)
  \/ \E append \in {"ok", "error"} : ChainAuditLog(append)
  \/ AppendSettles
  \/ ChainAuthenticate
  \/ ChainHandler

\* A stage of the chain just answered the request with an error.
StageRejected ==
  /\ cdone # <<>>
  /\ cdone[Len(cdone)].stage # "handler"
  /\ cdone[Len(cdone)].sent = 1

\* The key of requestCounts the request in the chain is counted under
ClaimedKey ==
  IF IsString(Claimant(creq.auth)) THEN RateKey(Claimant(creq.auth).s, now \div WindowMs)
  ELSE <<>>

\* Each stage that ran either sent one response or called next once, and
\* only the stage that ran last sent a response.
StageDoesOne ==
  \A i \in 1..Len(cdone) :
    /\ cdone[i].sent + cdone[i].nexts = 1
    /\ i < Len(cdone) => cdone[i].sent = 0

\* The step of a stage that answers with an error leaves the stored
\* templates and the rate counters of every other tenant as they were.
RejectionLeavesOthers ==
  (cdone' # cdone /\ StageRejected') =>
    /\ templateStore' = templateStore
    /\ \A t \in DOMAIN rateLimits :
         t # TenantKey(creq.tenantId) =>
           t \in DOMAIN rateLimits' /\ rateLimits'[t] = rateLimits[t]
    /\ \A k \in DOMAIN requestCounts :
         k # ClaimedKey =>
           k \in DOMAIN requestCounts' /\ requestCounts'[k] = requestCounts[k]

\* C25. Every stage of the middleware chain (validateApiKey,
\* isolateTenantPaths, sanitizeData, rateLimiter, auditLog, and authenticate
\* of server.js) does exactly one of two things, exactly once: it sends an
\* error response or it calls next.  After an error response no later stage
\* runs on the request, and the step that sent it changed nothing that
\* earlier requests left behind: the stored templates and the counters of
\* other tenants.
C25_StageRespondsOrCallsNext ==
  [][StageDoesOne' /\ RejectionLeavesOthers]_vars

\* A request of a tenant at its ceiling was turned away by a rate check
\* while another tenant has a counter, and stages ran before the one that
\* rejected.
C25_Witness_RejectedAtCeiling ==
  \/ /\ StageRejected /\ cdone[Len(cdone)].stage = "rateLimiter"
     /\ cdone[Len(cdone)].status = 429 /\ Len(cdone) > 1
     /\ \E t \in DOMAIN rateLimits : t # TenantKey(creq.tenantId)
  \/ /\ StageRejected /\ cdone[Len(cdone)].stage = "authenticate"
     /\ cdone[Len(cdone)].status = 429
     /\ \E k \in DOMAIN requestCounts : k # ClaimedKey

\* C26. auditLog never fails the request: whether the append to the log
\* file succeeds, fails or is still pending, the stage called next exactly
\* once and sent no error response.
C26_AuditLogNeverFails ==
  \A i \in 1..Len(cdone) :
    cdone[i].stage = "auditLog" =>
      /\ creq.append.state \in {"pending", "settled"}
      /\ creq.append.outcome \in {"ok", "error"}
      /\ cdone[i].nexts = 1
      /\ cdone[i].sent = 0 /\ cdone[i].status = 0

\* The append failed, and the request went on through the chain to its
\* handler.
C26_Witness_AppendFailed ==
  /\ creq.append = [state |-> "settled", outcome |-> "error"]
  /\ Ran("auditLog") /\ Ran("handler")

(***************************************************************************)
(* Two runs of the program side by side.  Both get the same requests of    *)
(* tenant B at the same instants, the clock and the sweep are the same in  *)
(* both, and each run gets requests of tenant A of its own.  The rate      *)
(* check is authenticate of server.js or rateLimiter of security.js.       *)
(***************************************************************************)
MaxTwinHeavy == 31   \* most requests of the tenant that sends many, before the clock moves
MaxTwinLight == 1    \* most requests of a tenant that sends few, between two clock steps
MaxTwinTicks == 1    \* most clock steps of the two runs

TwinTenants == {<<"t">>, <<"t", "-", "1">>}

\* A run: its stores, the requests A made in it, and how many more A may
\* make before the clock moves.
TwinRun(leftA) ==
  [requestCounts |-> << >>, rateLimits |-> << >>, byA |-> 0, leftA |-> leftA]

\* One of the two tenants sends many requests before the clock moves: B in
\* both runs, or A in the first run.
TwinCasts ==
  {c \in [A : TwinTenants, B : TwinTenants, heavy : {"A", "B"}, app : {"server", "security"}] :
     c.A # c.B}

TwinInit ==
  /\ twinCast \in TwinCasts
  /\ twinNow = [now |-> StartMs, nextSweep |-> StartMs + SweepIntervalMs, ticks |-> 0]
  /\ twinRuns = <<TwinRun(IF twinCast.heavy = "A" THEN MaxTwinHeavy ELSE MaxTwinLight),
                  TwinRun(MaxTwinLight)>>
  /\ twinSeen = [byB |-> 0, leftB |-> IF twinCast.heavy = "B" THEN MaxTwinHeavy ELSE MaxTwinLight,
                 status |-> <<0, 0>>]

TwinIdle ==
  /\ twinCast = [A |-> <<>>, B |-> <<>>, heavy |-> "none", app |-> "none"]
  /\ twinNow = [now |-> StartMs, nextSweep |-> StartMs + SweepIntervalMs, ticks |-> 0]
  /\ twinRuns = <<TwinRun(0), TwinRun(0)>>
  /\ twinSeen = [byB |-> 0, leftB |-> 0, status |-> <<0, 0>>]

\* One request of the tenant through the rate check in a run: the run
\* after it and the status answered, 0 when the check called next.
TwinCheck(run, tenantId) ==
  IF twinCast.app = "server"
  THEN LET r == authenticate(ApiKeyRequest(tenantId), run.requestCounts, twinNow.now)
       IN [run |-> [run EXCEPT !.requestCounts = r.counts], status |-> r.status]
  ELSE LET r == rateLimiter(run.rateLimits, tenantId, twinNow.now, 0)
       IN [run |-> [run EXCEPT !.rateLimits = r.limits], status |-> r.status]

\* B sends a request: both runs get it.
TwinRequestB ==
  /\ twinSeen.leftB > 0
  /\ LET r1 == TwinCheck(twinRuns[1], twinCast.B)
         r2 == TwinCheck(twinRuns[2], twinCast.B)
     IN /\ twinRuns' = <<r1.run, r2.run>>
        /\ twinSeen' = [byB |-> twinSeen.byB + 1, leftB |-> twinSeen.leftB - 1,
                        status |-> <<r1.status, r2.status>>]
  /\ UNCHANGED <<twinCast, twinNow, outsideTwin>>

\* A sends a request in one of the runs only.
TwinRequestA(i) ==
  /\ twinRuns[i].leftA > 0
  /\ LET r == TwinCheck(twinRuns[i], twinCast.A)
     IN twinRuns' = [twinRuns EXCEPT ![i] = [r.run EXCEPT !.byA = @ + 1, !.leftA = @ - 1]]
  /\ UNCHANGED <<twinCast, twinNow, twinSeen, outsideTwin>>

\* The instants the rate checks can change their answers at.
TwinInstants ==
  {t \in {((twinNow.now \div WindowMs) + 1) * WindowMs, twinNow.nextSweep,
          twinNow.nextSweep - (WindowMs \div 2)}
         \cup UNION {{twinRuns[i].rateLimits[k].resetTime,
                      twinRuns[i].rateLimits[k].resetTime + 1} :
                     <<i, k>> \in {p \in {1, 2} \X TwinTenants :
                                     p[2] \in DOMAIN twinRuns[p[1]].rateLimits}} :
     t > twinNow.now}

\* Time passes in both runs, and the sweeps due run in both.  Each tenant
\* may send a few requests more after it.
TwinTickTo(t) ==
  /\ twinNow.ticks < MaxTwinTicks
  /\ LET s1 == SweepsUntil(twinRuns[1].requestCounts, twinNow.nextSweep, t)
         s2 == SweepsUntil(twinRuns[2].requestCounts, twinNow.nextSweep, t)
     IN /\ twinRuns' = <<[twinRuns[1] EXCEPT !.requestCounts = s1.counts,
                                                !.leftA = MaxTwinLight],
                         [twinRuns[2] EXCEPT !.requestCounts = s2.counts,
                                                !.leftA = MaxTwinLight]>>
        /\ twinNow' = [now |-> t, nextSweep |-> s1.due, ticks |-> twinNow.ticks + 1]
  /\ twinSeen' = [twinSeen EXCEPT !.leftB = MaxTwinLight]
  /\ UNCHANGED <<twinCast, outsideTwin>>

TwinNext ==
  \/ TwinRequestB
  \/ \E i \in {1, 2} : TwinRequestA(i)
  \/ \E t \in TwinInstants : TwinTickTo(t)

\* C27. The rate-limit quotas of distinct tenants are independent: for
\* two distinct tenant identifiers A and B, whether a request of B is
\* admitted or rejected by the rate check is the same in two runs that
\* differ only in the requests A made.
C27_QuotasIndependent == twinSeen.status[1] = twinSeen.status[2]

\* B was rejected at its ceiling in both runs, and A had made requests in
\* one run and none in the other.
C27_Witness_SameVerdict ==
  /\ twinSeen.status = <<429, 429>>
  /\ twinRuns[1].byA > 0 /\ twinRuns[2].byA = 0

(***************************************************************************)
(* Specification of the template cache of server.js: uploads, lookups that *)
(* find the template in memory or fetch it from R2, and the hourly sweep.  *)
(***************************************************************************)
OneHourMs == 3600000          \* ONE_HOUR = 60 * 60 * 1000
CacheSweepIntervalMs == 3600000
MaxCacheTicks == 3   \* most clock steps in one run of the cache specification

CacheTenants == {<<"a">>, <<"b">>}

\* template.lastUsed
LastUsed(template) ==
  IF "lastUsed" \in DOMAIN template THEN template.lastUsed ELSE Undefined

\* The body of the cache setInterval callback at time t: the entries whose
\* lastUsed is set and more than an hour back are deleted.
SweepTemplateCache(store, t) ==
  LET stale(template) ==
        Truthy(LastUsed(template)) /\ t - LastUsed(template).n > OneHourMs
  IN [tenantId \in DOMAIN store |->
        [templateId \in {i \in DOMAIN store[tenantId] : ~stale(store[tenantId][i])} |->
           store[tenantId][templateId]]]

\* What the template routes and the cache sweep leave alone.
outsideTplCache ==
  <<dataVars, cryptoVars, authVars, mwVars, genVars, logVars, limiterVars, chainVars, twinVars>>

CacheInit ==
  /\ cacheClock = [now |-> StartMs, nextSweep |-> StartMs + CacheSweepIntervalMs, ticks |-> 0,
                   swept |-> FALSE]
  /\ touched = << >>

CacheIdle == CacheInit

Touch(tenantId, templateId) ==
  [k \in DOMAIN touched \cup {<<tenantId, templateId>>} |->
     IF k = <<tenantId, templateId>> THEN cacheClock.now ELSE touched[k]]

\* The template is in memory.
InCache(tenantId, templateId) ==
  tenantId \in DOMAIN templateStore /\ templateId \in DOMAIN templateStore[tenantId]

\* POST /api/templates/upload puts the template in memory, under an id no
\* template has yet.
CacheUpload(tenantId, templateId) ==
  /\ ~InCache(tenantId, templateId)
  /\ LET put == StorePut(templateStore, objectPrototype, tenantId, templateId,
                         UploadedTemplate(tenantId, templateId))
     IN templateStore' = put.store /\ objectPrototype' = put.proto
  /\ touched' = Touch(tenantId, templateId)
  /\ cacheClock' = [cacheClock EXCEPT !.swept = FALSE]
  /\ UNCHANGED <<r2Configured, r2Objects, pending, tres, nUploads, watched, deleted,
                 latePending, late, outsideTplCache>>

\* A lookup that does not find the template in memory gets it from R2 and
\* puts it in memory.
CacheFetch(tenantId, templateId) ==
  /\ StoreGet(templateStore, objectPrototype, tenantId, templateId) = Undefined
  /\ LET put == StorePut(templateStore, objectPrototype, tenantId, templateId,
                         CachedTemplate([buffer |-> FileOf(tenantId, templateId)]))
     IN templateStore' = put.store /\ objectPrototype' = put.proto
  /\ touched' = Touch(tenantId, templateId)
  /\ cacheClock' = [cacheClock EXCEPT !.swept = FALSE]
  /\ UNCHANGED <<r2Configured, r2Objects, pending, tres, nUploads, watched, deleted,
                 latePending, late, outsideTplCache>>

\* generate (or the variables route) reads a template that is in memory.
CacheUse(tenantId, templateId) ==
  /\ StoreGet(templateStore, objectPrototype, tenantId, templateId) # Undefined
  /\ touched' = Touch(tenantId, templateId)
  /\ cacheClock' = [cacheClock EXCEPT !.swept = FALSE]
  /\ UNCHANGED <<tplVars, outsideTplCache>>

\* The clock steps to the next firing of the sweep, or to the half hour
\* before it; a sweep that is due runs.
CacheInstants ==
  {t \in {cacheClock.nextSweep - (CacheSweepIntervalMs \div 2), cacheClock.nextSweep} :
     t > cacheClock.now}

CacheTickTo(t) ==
  /\ cacheClock.ticks < MaxCacheTicks
  /\ templateStore' = IF t = cacheClock.nextSweep THEN SweepTemplateCache(templateStore, t)
                      ELSE templateStore
  /\ cacheClock' = [now |-> t,
                    nextSweep |-> IF t = cacheClock.nextSweep THEN t + CacheSweepIntervalMs
                                  ELSE cacheClock.nextSweep,
                    ticks |-> cacheClock.ticks + 1,
                    swept |-> t = cacheClock.nextSweep]
  /\ UNCHANGED <<touched, objectPrototype, r2Configured, r2Objects, pending, tres, nUploads,
                 watched, deleted, latePending, late, outsideTplCache>>

CacheNext ==
  \/ \E t \in CacheTenants, i \in TemplateIds : CacheUpload(t, i)
  \/ \E t \in CacheTenants, i \in TemplateIds : CacheFetch(t, i)
  \/ \E t \in CacheTenants, i \in TemplateIds : CacheUse(t, i)
  \/ \E t \in CacheInstants : CacheTickTo(t)

\* C29. The hourly sweep of the template cache removes from memory every
\* template that has not been used for more than one hour, and removes no
\* template that was uploaded, fetched or used for generation within the
\* last hour: right after a sweep, a template put in memory earlier is
\* still there exactly if it was touched within the hour.
C29_SweepRemovesUnused ==
  cacheClock.swept =>
    \A k \in DOMAIN touched :
      InCache(k[1], k[2]) <=> (cacheClock.now - touched[k] <= OneHourMs)

(***************************************************************************)
(* The specifications: one subsystem runs, the others stay as constructed. *)
(***************************************************************************)
InitData == DataInit /\ CryptoIdle /\ AuthIdle /\ MwIdle /\ TplIdle /\ GenIdle /\ LogIdle /\ LimiterIdle /\ ChainIdle /\ TwinIdle /\ CacheIdle
SpecData == InitData /\ [][DataNext]_vars

InitCrypto == CryptoInit /\ DataIdle /\ AuthIdle /\ MwIdle /\ TplIdle /\ GenIdle /\ LogIdle /\ LimiterIdle /\ ChainIdle /\ TwinIdle /\ CacheIdle
SpecCrypto == InitCrypto /\ [][CryptoNext]_vars

InitRate == AuthInit /\ DataIdle /\ CryptoIdle /\ MwIdle /\ TplIdle /\ GenIdle /\ LogIdle /\ LimiterIdle /\ ChainIdle /\ TwinIdle /\ CacheIdle
SpecRate == InitRate /\ [][RateNext]_vars

InitSweep == AuthInit /\ DataIdle /\ CryptoIdle /\ MwIdle /\ TplIdle /\ GenIdle /\ LogIdle /\ LimiterIdle /\ ChainIdle /\ TwinIdle /\ CacheIdle
SpecSweep == InitSweep /\ [][SweepNext]_vars

InitToken == AuthInit /\ DataIdle /\ CryptoIdle /\ MwIdle /\ TplIdle /\ GenIdle /\ LogIdle /\ LimiterIdle /\ ChainIdle /\ TwinIdle /\ CacheIdle
SpecToken == InitToken /\ [][TokenNext]_vars

InitMw == MwInit /\ DataIdle /\ CryptoIdle /\ AuthIdle /\ TplIdle /\ GenIdle /\ LogIdle /\ LimiterIdle /\ ChainIdle /\ TwinIdle /\ CacheIdle
SpecMw == InitMw /\ [][MwNext]_vars

InitTpl == TplInit /\ DataIdle /\ CryptoIdle /\ AuthIdle /\ MwIdle /\ GenIdle /\ LogIdle /\ LimiterIdle /\ ChainIdle /\ TwinIdle /\ CacheIdle
SpecTpl == InitTpl /\ [][TplNext]_vars

InitGen == GenInit /\ DataIdle /\ CryptoIdle /\ AuthIdle /\ MwIdle /\ TplIdle /\ LogIdle /\ LimiterIdle /\ ChainIdle /\ TwinIdle /\ CacheIdle
SpecGen == InitGen /\ [][GenNext]_vars

InitDelete == DeleteInit /\ DataIdle /\ CryptoIdle /\ AuthIdle /\ MwIdle /\ GenIdle /\ LogIdle /\ LimiterIdle /\ ChainIdle /\ TwinIdle /\ CacheIdle
SpecDelete == InitDelete /\ [][TplNext]_vars

InitLog == LogInit /\ DataIdle /\ CryptoIdle /\ AuthIdle /\ MwIdle /\ TplIdle /\ GenIdle /\ LimiterIdle /\ ChainIdle /\ TwinIdle /\ CacheIdle
SpecLog == InitLog /\ [][LogNext]_vars

InitLimiter ==
  LimiterInit /\ DataIdle /\ CryptoIdle /\ AuthIdle /\ MwIdle /\ TplIdle /\ GenIdle /\ LogIdle
    /\ ChainIdle /\ TwinIdle /\ CacheIdle
SpecLimiter == InitLimiter /\ [][LimiterNext]_vars

InitChain ==
  /\ ChainInit /\ DataIdle /\ CryptoIdle /\ AuthIdle /\ MwIdle /\ TplIdle /\ GenIdle /\ LogIdle /\ TwinIdle /\ CacheIdle
  /\ lnow \in {LimiterStartMs, LimiterStartMs + KeyLifetimeMs + 1}
  /\ rateLimits = << >>
  /\ lres = NoLimiterResponse
  /\ nLimited = 0
  /\ nLimiterTicks = 0
  /\ reached = << >>
SpecChain == InitChain /\ [][ChainNext]_vars

InitTwin ==
  TwinInit /\ DataIdle /\ CryptoIdle /\ AuthIdle /\ MwIdle /\ TplIdle /\ GenIdle /\ LogIdle
    /\ LimiterIdle /\ ChainIdle /\ CacheIdle

SpecTwin == InitTwin /\ [][TwinNext]_vars

InitCache ==
  CacheInit /\ DataIdle /\ CryptoIdle /\ AuthIdle /\ MwIdle /\ TplIdle /\ GenIdle /\ LogIdle
    /\ LimiterIdle /\ ChainIdle /\ TwinIdle

SpecCache == InitCache /\ [][CacheNext]_vars

=============================================================================
